---- MODULE Spec2Model ----
(***************************************************************************)
(* Model of the flask-event-receiver incident store (src/app.py): the      *)
(* ingestion endpoints /evento and /resposta_ia, the confirmation          *)
(* workflow (/api/confirmar, /api/desconfirmar, POST and GET /confirmar),  *)
(* and the row-count retention sweep, against a PostgreSQL store running   *)
(* at READ COMMITTED.                                                      *)
(*                                                                         *)
(* Column values are strings.  NULL stands for SQL NULL and for Python's   *)
(* None (a key that is absent from a JSON payload).  Timestamps are whole  *)
(* seconds since the start of the run, formatted by _now_str and parsed    *)
(* back by strptime.                                                       *)
(***************************************************************************)
EXTENDS Integers, FiniteSets, Sequences, TLC

\* ------------------------------------------------------------------ bounds
MaxId == 3       \* ids the serial column hands out in one run
MaxTicks == 2    \* clock advances in one run
MaxIdConfirm == 2  \* incidents in a run of the confirmation workflow
MaxTicksIngest == 1  \* clock advances in a run of the ingestion endpoints
MaxIdIngest == 2     \* incidents created in such a run
MaxIdAttach == 2     \* incidents in a run of the attach by reference

\* ------------------------------------------------------- program constants
MAX_ROWS == 3                \* MAX_ROWS (environment-configurable)
PRUNE_THRESHOLD_PCT == 80    \* PRUNE_THRESHOLD = 0.80
PRUNE_TARGET_PCT == 70       \* PRUNE_TARGET = 0.70
PRUNE_BATCH == 1
UPDATE_WINDOW_SEC == 15
URLMETA_WINDOW_SEC == 8      \* _try_attach_sha_by_urlmeta(window_seconds=8)
ATTACH_LIMIT == 400          \* _try_attach_sha_to_recent_events(limit=400)
CONFIRM_VALUE == "SIM"

NULL == "<NULL>"

\* ------------------------------------------------------------- SQL helpers
COALESCE(a, b) == IF a # NULL THEN a ELSE b
NULLIF(a, b) == IF a = b THEN NULL ELSE a
\* Python truthiness of a string or None
Truthy(v) == v # NULL /\ v # ""
\* a or b
Or(a, b) == IF Truthy(a) THEN a ELSE b
\* an empty stored value: NULL or ''
IsEmpty(v) == v = NULL \/ v = ""

\* ------------------------------------------------------------------- texts
\* (s or "").strip(), on the texts the model feeds in: " " is the one text
\* made of whitespace only, " r1 " the one with surrounding whitespace.
_trim(s) ==
  CASE s = NULL -> ""
    [] s = " " -> ""
    [] s = " r1 " -> "r1"
    [] OTHER -> s

\* .replace("\n", "<br>"): "y1\ny2" is the one text holding a newline.
BrReplace(s) == IF s = "y1\ny2" THEN "y1<br>y2" ELSE s

\* The marker that introduces secondary-analysis text inside a combined text.
\* "Y1#L1" stands for "Y1\n<marker> L1", "#L1" for a text starting with it.
_split_yolo_llava(desc) ==
  CASE desc = "" -> <<"", "">>
    [] desc = NULL -> <<"", "">>
    [] desc = "Y1#L1" -> <<"Y1", "L1">>
    [] desc = "#L1" -> <<"", "L1">>
    [] OTHER -> <<_trim(desc), "">>

\* ------------------------------------------------------------------ images
\* Base64 images of the model: B1 and B2 decode (to different bytes), B1u is
\* B1 as a data URL, Bbad does not decode.  D1, D2 are the hex digests.
_sha1_from_b64_image(img_b64) ==
  CASE img_b64 = "B1" -> "D1"
    [] img_b64 = "data:image/jpeg;base64,B1" -> "D1"
    [] img_b64 = "B2" -> "D2"
    [] OTHER -> ""

\* -------------------------------------------------------------------- time
TickSteps == {UPDATE_WINDOW_SEC, UPDATE_WINDOW_SEC + 1}
MaxTime == MaxTicks * (UPDATE_WINDOW_SEC + 1)
Times == 0..MaxTime
\* strftime("%Y-%m-%d %H:%M:%S") of second t
FmtTime(t) == ToString(t)
TimeStrings == {FmtTime(t) : t \in Times}
\* strptime: the second a stored timestamp denotes, -1 when it does not parse
ParseTable == [s \in TimeStrings |-> CHOOSE t \in Times : FmtTime(t) = s]
ParseTime(s) == IF s \in TimeStrings THEN ParseTable[s] ELSE -1

\* ------------------------------------------------------------------ schema
Columns ==
  {"timestamp", "status", "objeto", "descricao", "imagem", "identificador",
   "img_url", "camera_id", "camera_name", "local", "descricao_raw",
   "descricao_pt", "model_yolo", "classes", "yolo_conf", "yolo_imgsz",
   "job_id", "sha256", "file_name", "llava_pt", "dur_llava_ms",
   "confirmado", "relato_operador", "confirmado_por", "confirmado_em",
   "tratamento_status", "tratamento_resumo", "tratamento_em",
   "vitimas_aparentes", "criancas_ou_idosos", "em_andamento"}

\* A row as INSERT leaves it when it names no column: every column NULL.
NullRow == [c \in Columns |-> NULL]

\* INSERT ... VALUES(**vals): the named columns set, the others NULL.
InsertRow(vals) ==
  [c \in Columns |-> IF c \in DOMAIN vals THEN vals[c] ELSE NULL]

VARIABLES
  eventos,               \* table eventos: id -> row, for the ids in the table
  next_id,               \* the next value of the serial primary key
  evento_qualificacao,   \* table evento_qualificacao: {<<evento_id, qual_id>>}
  evento_tratamento,     \* table evento_tratamento: set of rows
  qualificacao_tratamento, \* the treatment matrix: qual_id -> row
  now,                   \* the wall clock, in seconds
  ticks,                 \* clock advances so far
  pc,                    \* per worker: where its confirm request stands
  req,                   \* per worker: the confirm request it is serving
  last,                  \* the request completed last, and what it answered
  sweep,                 \* prune_if_needed: the backend and the loop's locals
  lookups                \* qualificacao_incidente and the four lookup tables

vars == <<eventos, next_id, evento_qualificacao, evento_tratamento,
          qualificacao_tratamento, now, ticks, pc, req, last, sweep,
          lookups>>

_now_str == FmtTime(now)

Ids == DOMAIN eventos

\* ------------------------------------------------------- in-flight confirms
Procs == {"w1", "w2"}

\* Rows a confirm transaction holds locked (SELECT ... FOR UPDATE) until it
\* commits: another transaction's UPDATE or DELETE of such a row waits.
Locked == {req[p].id : p \in {q \in Procs : pc[q] \in {"check", "write"}}}

\* What `last` records of a completed request: the operation, the worker
\* that served it (NULL for the single-transaction handlers), the incident
\* it resolved to, its answer, the other incident a conflict names, whether
\* it wrote, the tags it carried, whether it had to wait for the
\* row lock, and the qualification ids the incident was tagged with when the
\* request's last step began.
Done(op, proc, id, res, other, wrote, quals, waited) ==
  [op |-> op, proc |-> proc, id |-> id, res |-> res, other |-> other,
   wrote |-> wrote, quals |-> quals, waited |-> waited,
   preQ |-> {a[2] : a \in {b \in evento_qualificacao : b[1] = id}}]

\* ... of a request that is no confirm request
DoneIngest(op, id, res, wrote) ==
  Done(op, NULL, id, res, 0, wrote, {}, FALSE)

\* --------------------------------------------------------------- retention
Min(a, b) == IF a <= b THEN a ELSE b
Max(a, b) == IF a >= b THEN a ELSE b

\* The same SELECT ordered by id instead.
OldestIds_by_id(ev, n) ==
  {S \in SUBSET DOMAIN ev :
     /\ Cardinality(S) = Min(n, Cardinality(DOMAIN ev))
     /\ \A a \in S : \A b \in (DOMAIN ev) \ S : a <= b}

\* SELECT id FROM eventos ORDER BY timestamp ASC LIMIT n: the possible
\* answers (rows of equal timestamp come in any order).
OldestIds(ev, n) ==
  {S \in SUBSET DOMAIN ev :
     /\ Cardinality(S) = Min(n, Cardinality(DOMAIN ev))
     /\ \A a \in S : \A b \in (DOMAIN ev) \ S :
          ParseTime(ev[a].timestamp) <= ParseTime(ev[b].timestamp)}

DeleteIds(ev, S) == [i \in (DOMAIN ev) \ S |-> ev[i]]

\* The batch loop of the row-count strategy: the stores it can end with.
RECURSIVE PruneLoop(_, _)
PruneLoop(ev, to_remove) ==
  IF to_remove <= 0 THEN {ev}
  ELSE LET step == Min(PRUNE_BATCH, to_remove)
       IN UNION { IF Cardinality(S) = 0 THEN {ev}
                  ELSE PruneLoop(DeleteIds(ev, S), to_remove - Cardinality(S))
                  : S \in OldestIds(ev, step) }

\* prune_if_needed, row-count strategy (the backend is not sqlite), for a
\* configured MAX_ROWS of max_rows: the stores the sweep can leave.
prune_rows(ev, max_rows) ==
  LET total_rows == Cardinality(DOMAIN ev)
      target_rows == (max_rows * PRUNE_TARGET_PCT) \div 100
  IN IF total_rows <= (max_rows * PRUNE_THRESHOLD_PCT) \div 100 THEN {ev}
     ELSE PruneLoop(ev, Max(0, total_rows - target_rows))

\* prune_if_needed, row-count strategy, under the MAX_ROWS of the model.
prune_if_needed(ev) == prune_rows(ev, MAX_ROWS)

\* evento_tratamento references eventos ON DELETE CASCADE;
\* evento_qualificacao declares no foreign key.
CascadeTratamento(ev) == {t \in evento_tratamento : t.evento_id \in DOMAIN ev}

\* prune_if_needed batch by batch: every batch is committed on its own.
\* backend is BACKEND; pc is "idle" before a sweep, "loop" at the head of
\* its loop and "done" after it; uso is the last reading of the volume's
\* usage, in percent; to_remove is the local of the row-count strategy;
\* batch is the row count of the last DELETE, -1 when the sweep made none.
NoSweep ==
  [backend |-> "postgresql", pc |-> "idle", uso |-> 0, to_remove |-> 0,
   batch |-> 0 - 1]

\* What os.statvfs can report: used / total of the volume that holds the
\* database file, or StatvfsFailed when the call raises.
UsageReadings == {60, 70, 75, 80, 90}
StatvfsFailed == 0 - 1

\* The sweep up to the head of its loop, for the store ev: the values of
\* its locals.
prune_start(ev, backend) ==
  IF backend = "sqlite"
  THEN {[backend |-> backend, uso |-> uso, to_remove |-> 0, batch |-> 0 - 1,
         pc |-> IF uso < PRUNE_THRESHOLD_PCT THEN "done"
                ELSE IF uso > PRUNE_TARGET_PCT THEN "loop" ELSE "done"]
        : uso \in {IF r = StatvfsFailed THEN 0 ELSE r
                   : r \in UsageReadings \cup {StatvfsFailed}}}
  ELSE LET total_rows == Cardinality(DOMAIN ev)
           target_rows == (MAX_ROWS * PRUNE_TARGET_PCT) \div 100
           to_remove == Max(0, total_rows - target_rows)
       IN {[backend |-> backend, uso |-> 0, batch |-> 0 - 1,
            to_remove |->
              IF total_rows <= (MAX_ROWS * PRUNE_THRESHOLD_PCT) \div 100
              THEN 0 ELSE to_remove,
            pc |-> IF total_rows <= (MAX_ROWS * PRUNE_THRESHOLD_PCT) \div 100
                   THEN "done"
                   ELSE IF to_remove > 0 THEN "loop" ELSE "done"]}

\* One pass of the loop: the DELETE of the oldest rows, its commit, and in
\* the capacity strategy the VACUUM and the new reading.  The space a batch
\* frees shows in the reading in whole blocks of the volume, so the reading
\* falls or stays.
prune_batch ==
  /\ sweep.pc = "loop"
  /\ LET step == IF sweep.backend = "sqlite" THEN PRUNE_BATCH
                 ELSE Min(PRUNE_BATCH, sweep.to_remove)
     IN \E S \in OldestIds(eventos, step) :
          LET removed == Cardinality(S)
          IN /\ eventos' = DeleteIds(eventos, S)
             /\ evento_tratamento' = CascadeTratamento(DeleteIds(eventos, S))
             /\ IF removed = 0
                THEN sweep' = [sweep EXCEPT !.pc = "done", !.batch = 0]
                ELSE IF sweep.backend = "sqlite"
                THEN \E r \in {u \in UsageReadings : u <= sweep.uso}
                               \cup {StatvfsFailed} :
                       sweep' =
                         IF r = StatvfsFailed
                         THEN [sweep EXCEPT !.pc = "done", !.batch = removed]
                         ELSE [sweep EXCEPT
                                 !.uso = r, !.batch = removed,
                                 !.pc = IF r > PRUNE_TARGET_PCT
                                        THEN "loop" ELSE "done"]
                ELSE sweep' =
                       [sweep EXCEPT
                          !.to_remove = @ - removed, !.batch = removed,
                          !.pc = IF sweep.to_remove - removed > 0
                                 THEN "loop" ELSE "done"]
  /\ UNCHANGED <<next_id, evento_qualificacao, qualificacao_tratamento, now,
                 ticks, pc, req, last>>

\* ------------------------------------------------------------------ /evento
\* A request body: every key the handler reads; NULL for an absent key.
\* detected is the JSON boolean (FALSE also stands for an absent key: both
\* are falsy).
NoEvento ==
  [job_id |-> NULL, camera_id |-> NULL, camera_name |-> NULL, local |-> NULL,
   img_url |-> NULL, url |-> NULL, image_url |-> NULL, img |-> NULL,
   descricao_yolo_pt |-> NULL, descricao_raw |-> NULL, description |-> NULL,
   descricao_pt |-> NULL, model_yolo |-> NULL, model |-> NULL,
   classes |-> NULL, yolo_conf |-> NULL, conf |-> NULL, yolo_imgsz |-> NULL,
   imgsz |-> NULL, sha256 |-> NULL, img_hash |-> NULL, sha |-> NULL,
   file_name |-> NULL, image |-> NULL, llava_pt |-> NULL, object |-> NULL,
   identificador |-> NULL, detected |-> FALSE]

\* dados.get(key, default)
GetOr(v, default) == IF v = NULL THEN default ELSE v

\* The sha256 the handler works with: the supplied digest (under any of its
\* names), else the digest of the inline image.
EventoSha(d) ==
  LET supplied == _trim(Or(Or(d.sha256, d.img_hash), d.sha))
      img_b64 == _trim(d.image)
  IN IF supplied = "" /\ img_b64 # "" THEN _sha1_from_b64_image(img_b64)
     ELSE supplied

\* base_row of receber_evento
base_row(d) ==
  LET job_id == _trim(d.job_id)
      yolo0 == _trim(d.descricao_yolo_pt)
      desc_pt_in == _trim(Or(Or(d.descricao_pt, d.description), ""))
      split == IF yolo0 = "" /\ desc_pt_in # ""
               THEN _split_yolo_llava(desc_pt_in) ELSE <<yolo0, "">>
      yolo_desc_in == split[1]
      llava_extra == split[2]
      sha256 == EventoSha(d)
      llava0 == Or(_trim(d.llava_pt), "")
      llava_pt_in == IF llava0 = "" THEN llava_extra ELSE llava0
  IN [timestamp |-> _now_str,
      status |-> IF d.detected THEN "alerta" ELSE "ok",
      objeto |-> GetOr(d.object, ""),
      descricao |-> BrReplace(Or(yolo_desc_in, "")),
      imagem |-> _trim(d.image),
      img_url |-> _trim(Or(Or(Or(Or(d.img_url, d.url), d.image_url), d.img), "")),
      identificador |-> GetOr(d.identificador, "desconhecido"),
      camera_id |-> _trim(d.camera_id),
      camera_name |-> _trim(d.camera_name),
      local |-> _trim(d.local),
      descricao_raw |-> _trim(Or(d.descricao_raw, d.description)),
      descricao_pt |-> Or(yolo_desc_in, ""),
      model_yolo |-> _trim(Or(d.model_yolo, d.model)),
      classes |-> _trim(d.classes),
      yolo_conf |-> _trim(Or(Or(d.yolo_conf, d.conf), "")),
      yolo_imgsz |-> _trim(Or(Or(d.yolo_imgsz, d.imgsz), "")),
      job_id |-> Or(job_id, sha256),
      sha256 |-> sha256,
      file_name |-> _trim(d.file_name),
      llava_pt |-> llava_pt_in]

MaxOf(S) == CHOOSE m \in S : \A x \in S : x <= m

\* _row_by_keys without the recency test of its job_id tier.
_row_by_keys_any_age(b, exact) ==
  LET byBoth == {i \in Ids : eventos[i].job_id = b.job_id
                             /\ eventos[i].sha256 = b.sha256}
      byJob == {i \in Ids : eventos[i].job_id = b.job_id}
  IN IF ~Truthy(b.job_id) THEN 0
     ELSE IF Truthy(b.sha256) /\ byBoth # {} THEN MaxOf(byBoth)
     ELSE IF byJob = {} THEN 0
     ELSE MaxOf(byJob)

\* _row_by_keys with a last tier that takes the newest row of the file name.
_row_by_keys_file_name(b, exact) ==
  LET byBoth == {i \in Ids : eventos[i].job_id = b.job_id
                             /\ eventos[i].sha256 = b.sha256}
      byJob == {i \in Ids : eventos[i].job_id = b.job_id}
      byFile == {i \in Ids : eventos[i].file_name = b.file_name}
  IN IF Truthy(b.job_id) /\ Truthy(b.sha256) /\ byBoth # {}
     THEN MaxOf(byBoth)
     ELSE IF Truthy(b.job_id) /\ byJob # {}
             /\ ParseTime(eventos[MaxOf(byJob)].timestamp) >= 0
             /\ LET age == now - ParseTime(eventos[MaxOf(byJob)].timestamp)
                IN age < UPDATE_WINDOW_SEC
                   \/ (age = UPDATE_WINDOW_SEC /\ exact)
     THEN MaxOf(byJob)
     ELSE IF Truthy(b.file_name) /\ byFile # {} THEN MaxOf(byFile)
     ELSE 0

\* _row_by_keys: the id of the row to update, 0 for none.  exact says
\* whether datetime.now() falls on a whole second: the stored timestamp has
\* no fraction, so the age of the row is (now - dt_prev) plus a fraction.
_row_by_keys(b, exact) ==
  LET byBoth == {i \in Ids : eventos[i].job_id = b.job_id
                             /\ eventos[i].sha256 = b.sha256}
      byJob == {i \in Ids : eventos[i].job_id = b.job_id}
  IN IF ~Truthy(b.job_id) THEN 0
     ELSE IF Truthy(b.sha256) /\ byBoth # {} THEN MaxOf(byBoth)
     ELSE IF byJob = {} THEN 0
     ELSE LET r == MaxOf(byJob)
              dt_prev == ParseTime(eventos[r].timestamp)
              age == now - dt_prev
          IN IF dt_prev >= 0
                /\ (age < UPDATE_WINDOW_SEC \/ (age = UPDATE_WINDOW_SEC /\ exact))
             THEN r ELSE 0

\* The UPDATE with col = :col for every key of base_row.
MergeEvento_overwrite(row, b) ==
  [c \in Columns |->
     IF c = "timestamp" THEN _now_str
     ELSE IF c \in DOMAIN b THEN (IF b[c] = NULL THEN "" ELSE b[c])
          ELSE row[c]]

\* The UPDATE of receber_evento: col = COALESCE(NULLIF(:col,''), col) for
\* every key of base_row but timestamp, and timestamp = :ts.
MergeEvento(row, b) ==
  [c \in Columns |->
     IF c = "timestamp" THEN _now_str
     ELSE IF c \in DOMAIN b
          THEN COALESCE(NULLIF(IF b[c] = NULL THEN "" ELSE b[c], ""), row[c])
          ELSE row[c]]

receber_evento(d, exact) ==
  LET b == base_row(d)
      row == _row_by_keys(b, exact)
      ev_id == IF row # 0 THEN row ELSE next_id
      ev1 == IF row # 0
             THEN [eventos EXCEPT ![row] = MergeEvento(@, b)]
             ELSE [i \in Ids \cup {next_id} |->
                     IF i = next_id THEN InsertRow(b) ELSE eventos[i]]
  IN /\ row # 0 \/ next_id <= MaxId
     /\ row \notin Locked
     /\ \E ev2 \in prune_if_needed(ev1) :
          /\ ((DOMAIN ev1) \ (DOMAIN ev2)) \cap Locked = {}
          /\ eventos' = ev2
          /\ evento_tratamento' = CascadeTratamento(ev2)
     /\ next_id' = IF row # 0 THEN next_id ELSE next_id + 1
     /\ last' = DoneIngest("evento", ev_id,
                           IF row # 0 THEN "merged" ELSE "created", TRUE)
     /\ UNCHANGED <<evento_qualificacao, qualificacao_tratamento, now, ticks,
                    pc, req>>

\* receber_evento up to the head of the sweep's loop.
receber_evento_start(d, exact) ==
  LET b == base_row(d)
      row == _row_by_keys(b, exact)
      ev1 == IF row # 0
             THEN [eventos EXCEPT ![row] = MergeEvento(@, b)]
             ELSE [i \in Ids \cup {next_id} |->
                     IF i = next_id THEN InsertRow(b) ELSE eventos[i]]
  IN /\ sweep.pc # "loop"
     /\ row # 0 \/ next_id <= MaxId
     /\ row \notin Locked
     /\ eventos' = ev1
     /\ next_id' = IF row # 0 THEN next_id ELSE next_id + 1
     /\ sweep' \in prune_start(ev1, sweep.backend)
     /\ last' = DoneIngest("evento", IF row # 0 THEN row ELSE next_id,
                           IF row # 0 THEN "merged" ELSE "created", TRUE)
     /\ UNCHANGED <<evento_qualificacao, evento_tratamento,
                    qualificacao_tratamento, now, ticks, pc, req>>

\* receber_evento when a statement of prune_if_needed raises before the
\* sweep's first commit (its SELECT COUNT(*) or its first DELETE): neither
\* the sweep nor the handler catches, the exception leaves the
\* `with engine.begin()` block, which rolls the UPDATE or INSERT back, and
\* the request is answered with an error.  The serial column keeps the
\* value the INSERT drew.
receber_evento_sweep_error(d, exact) ==
  LET b == base_row(d)
      row == _row_by_keys(b, exact)
  IN /\ row # 0 \/ next_id <= MaxId
     /\ row \notin Locked
     /\ next_id' = IF row # 0 THEN next_id ELSE next_id + 1
     /\ last' = DoneIngest("evento", IF row # 0 THEN row ELSE next_id,
                           "error", FALSE)
     /\ UNCHANGED <<eventos, evento_qualificacao, evento_tratamento,
                    qualificacao_tratamento, now, ticks, pc, req>>

\* ------------------------------------------------------------- /resposta_ia
NoResposta ==
  [job_id |-> NULL, identificador |-> NULL, camera_id |-> NULL,
   camera_name |-> NULL, local |-> NULL, resposta |-> NULL, llava_pt |-> NULL,
   dur_llava_ms |-> NULL, sha256 |-> NULL, img_hash |-> NULL, sha |-> NULL,
   file_name |-> NULL]

\* The row receber_resposta_ia inserts when it finds no target.
RespostaNewRow(d) ==
  LET job_id == _trim(d.job_id)
      llava_pt == _trim(Or(d.resposta, d.llava_pt))
      sha256 == _trim(Or(Or(d.sha256, d.img_hash), d.sha))
  IN [timestamp |-> _now_str,
      status |-> "ok",
      objeto |-> "Analise IA",
      descricao |-> BrReplace(Or(llava_pt, "")),
      imagem |-> "",
      img_url |-> "",
      identificador |-> Or(_trim(d.identificador), "desconhecido"),
      camera_id |-> _trim(d.camera_id),
      camera_name |-> _trim(d.camera_name),
      local |-> _trim(d.local),
      descricao_raw |-> "",
      descricao_pt |-> "",
      model_yolo |-> "",
      classes |-> "",
      yolo_conf |-> "",
      yolo_imgsz |-> "",
      job_id |-> Or(job_id, sha256),
      sha256 |-> sha256,
      file_name |-> _trim(d.file_name),
      llava_pt |-> llava_pt,
      dur_llava_ms |-> _trim(Or(d.dur_llava_ms, ""))]

\* An UPDATE that stores the answer and resets the confirmation.
MergeResposta_unconfirm(row, d) ==
  [row EXCEPT
     !.llava_pt = _trim(Or(d.resposta, d.llava_pt)),
     !.dur_llava_ms = _trim(Or(d.dur_llava_ms, "")),
     !.confirmado = "",
     !.tratamento_status = ""]

\* The UPDATE of receber_resposta_ia.
MergeResposta(row, d) ==
  [row EXCEPT
     !.llava_pt = _trim(Or(d.resposta, d.llava_pt)),
     !.dur_llava_ms = _trim(Or(d.dur_llava_ms, "")),
     !.local = COALESCE(NULLIF(_trim(d.local), ""), @),
     !.camera_name = COALESCE(NULLIF(_trim(d.camera_name), ""), @),
     !.sha256 = COALESCE(NULLIF(@, ""),
                         NULLIF(_trim(Or(Or(d.sha256, d.img_hash), d.sha)), "")),
     !.file_name = COALESCE(NULLIF(@, ""), NULLIF(_trim(d.file_name), ""))]

\* The target of receber_resposta_ia: the newest row of the job_id, looked
\* up only when a job_id is supplied; 0 for none.
RespostaTarget(d) ==
  LET job_id == _trim(d.job_id)
      byJob == {i \in Ids : eventos[i].job_id = job_id}
  IN IF job_id # "" /\ byJob # {} THEN MaxOf(byJob) ELSE 0

\* The store after the UPDATE or INSERT of receber_resposta_ia.
RespostaStored(d) ==
  LET target_id == RespostaTarget(d)
  IN IF target_id # 0
     THEN [eventos EXCEPT ![target_id] = MergeResposta(@, d)]
     ELSE [i \in Ids \cup {next_id} |->
             IF i = next_id THEN InsertRow(RespostaNewRow(d))
             ELSE eventos[i]]

\* receber_resposta_ia up to the head of the sweep's loop.
receber_resposta_ia_start(d) ==
  LET target_id == RespostaTarget(d)
  IN /\ sweep.pc # "loop"
     /\ target_id # 0 \/ next_id <= MaxId
     /\ target_id \notin Locked
     /\ eventos' = RespostaStored(d)
     /\ next_id' = IF target_id # 0 THEN next_id ELSE next_id + 1
     /\ sweep' \in prune_start(RespostaStored(d), sweep.backend)
     /\ last' = DoneIngest("resposta_ia",
                           IF target_id # 0 THEN target_id ELSE next_id,
                           IF target_id # 0 THEN "merged" ELSE "created", TRUE)
     /\ UNCHANGED <<evento_qualificacao, evento_tratamento,
                    qualificacao_tratamento, now, ticks, pc, req>>

receber_resposta_ia(d) ==
  LET target_id == RespostaTarget(d)
      ev1 == RespostaStored(d)
  IN /\ target_id # 0 \/ next_id <= MaxId
     /\ target_id \notin Locked
     /\ \E ev2 \in prune_if_needed(ev1) :
          /\ ((DOMAIN ev1) \ (DOMAIN ev2)) \cap Locked = {}
          /\ eventos' = ev2
          /\ evento_tratamento' = CascadeTratamento(ev2)
     /\ next_id' = IF target_id # 0 THEN next_id ELSE next_id + 1
     /\ last' = DoneIngest("resposta_ia",
                           IF target_id # 0 THEN target_id ELSE next_id,
                           IF target_id # 0 THEN "merged" ELSE "created", TRUE)
     /\ UNCHANGED <<evento_qualificacao, qualificacao_tratamento, now, ticks,
                    pc, req>>

\* ----------------------------------------------------------- GET /confirmar
\* _infer_meta_from_url on the image references of the model:
\* "cam3@T.jpg" stands for .../cam3_<date>_<time T>_001.jpg,
\* "Patio@T.jpg" for a name that is no cam<N>; the answer is
\* <<camera_id, camera_name, ts_db>>.
_infer_meta_from_url(url_img) ==
  CASE url_img = "cam3@15.jpg" -> <<"3", "", FmtTime(15)>>
    [] url_img = "Patio@15.jpg" -> <<"", "Patio", FmtTime(15)>>
    [] url_img = "cam3@8.jpg" -> <<"3", "", FmtTime(8)>>
    [] url_img = "cam3@24.jpg" -> <<"3", "", FmtTime(24)>>
    [] url_img = "Patio@8.jpg" -> <<"", "Patio", FmtTime(8)>>
    [] OTHER -> <<"", "", "">>

\* The scan taking the lowest matching id.
AttachRecentWithin_oldest(sha, limit) ==
  LET cand == {i \in Ids : IsEmpty(eventos[i].sha256)
                           /\ ~IsEmpty(eventos[i].imagem)}
      recent == {i \in cand : Cardinality({j \in cand : j > i}) < limit}
      hit == {i \in recent : _sha1_from_b64_image(eventos[i].imagem) = sha}
  IN IF sha = "" \/ hit = {} THEN 0 ELSE CHOOSE m \in hit : \A x \in hit : m <= x

\* _try_attach_sha_to_recent_events(sha, limit): the row that gets the
\* digest, 0 for none.
AttachRecentWithin(sha, limit) ==
  LET cand == {i \in Ids : IsEmpty(eventos[i].sha256)
                           /\ ~IsEmpty(eventos[i].imagem)}
      \* ORDER BY id DESC LIMIT :lim
      recent == {i \in cand : Cardinality({j \in cand : j > i}) < limit}
      hit == {i \in recent : _sha1_from_b64_image(eventos[i].imagem) = sha}
  IN IF sha = "" \/ hit = {} THEN 0 ELSE MaxOf(hit)

\* The call of GET /confirmar, with the default limit.
AttachRecentTarget(sha) == AttachRecentWithin(sha, ATTACH_LIMIT)

\* _try_attach_sha_to_recent_events as a transaction of its own.
try_attach_sha_to_recent_events(sha_in, limit) ==
  LET sha == _trim(sha_in)
      target == AttachRecentWithin(sha, limit)
  IN /\ target \notin Locked
     /\ eventos' = IF target = 0 THEN eventos
                   ELSE [eventos EXCEPT ![target].sha256 = sha]
     /\ last' = DoneIngest("attach", target, "ok", target # 0)
     /\ UNCHANGED <<next_id, evento_qualificacao, evento_tratamento,
                    qualificacao_tratamento, now, ticks, pc, req>>

\* _try_attach_sha_by_urlmeta with the ends of the window left out.
AttachUrlmetaTarget_open(sha, url_img) ==
  LET meta == _infer_meta_from_url(url_img)
      center == ParseTime(meta[3])
      inWin(i) == LET t == ParseTime(eventos[i].timestamp)
                  IN center - URLMETA_WINDOW_SEC < t
                     /\ t < center + URLMETA_WINDOW_SEC
      byId == {i \in Ids : IsEmpty(eventos[i].sha256) /\ inWin(i)
                           /\ eventos[i].camera_id = meta[1]}
      byName == {i \in Ids : IsEmpty(eventos[i].sha256) /\ inWin(i)
                             /\ eventos[i].camera_name = meta[2]}
  IN IF sha = "" \/ url_img = "" THEN 0
     ELSE IF meta[3] = "" \/ (meta[1] = "" /\ meta[2] = "") THEN 0
     ELSE IF meta[1] # "" /\ byId # {} THEN MaxOf(byId)
     ELSE IF meta[2] # "" /\ byName # {} THEN MaxOf(byName)
     ELSE 0

\* _try_attach_sha_by_urlmeta: the row that gets the digest, 0 for none.
AttachUrlmetaTarget(sha, url_img) ==
  LET meta == _infer_meta_from_url(url_img)
      center == ParseTime(meta[3])
      inWin(i) == LET t == ParseTime(eventos[i].timestamp)
                  IN center - URLMETA_WINDOW_SEC <= t
                     /\ t <= center + URLMETA_WINDOW_SEC
      byId == {i \in Ids : IsEmpty(eventos[i].sha256) /\ inWin(i)
                           /\ eventos[i].camera_id = meta[1]}
      byName == {i \in Ids : IsEmpty(eventos[i].sha256) /\ inWin(i)
                             /\ eventos[i].camera_name = meta[2]}
  IN IF sha = "" \/ url_img = "" THEN 0
     ELSE IF meta[3] = "" \/ (meta[1] = "" /\ meta[2] = "") THEN 0
     ELSE IF meta[1] # "" /\ byId # {} THEN MaxOf(byId)
     ELSE IF meta[2] # "" /\ byName # {} THEN MaxOf(byName)
     ELSE 0

\* The placeholder row GET /confirmar inserts as its last resort.
PlaceholderRow(sha, url_img) ==
  [timestamp |-> _now_str, status |-> "ok", objeto |-> "Indicio (Loki)",
   descricao |-> "", imagem |-> "", img_url |-> url_img,
   identificador |-> "Loki", camera_id |-> "", camera_name |-> "",
   local |-> "", descricao_raw |-> "", descricao_pt |-> "",
   model_yolo |-> "", classes |-> "", yolo_conf |-> "", yolo_imgsz |-> "",
   job_id |-> sha, sha256 |-> sha, file_name |-> "", llava_pt |-> ""]

\* GET /confirmar?sha=...&url=...: the store writes of its sha branch.  The
\* page itself is never rendered for a row that exists: _load_event_by_id
\* reads columns 12..16 of a 12-column result and raises.
confirmar_ui_get(sha_in, url_in) ==
  LET sha == _trim(sha_in)
      url_img == _trim(url_in)
      bySha == {i \in Ids : eventos[i].sha256 = sha}
      a1 == AttachRecentTarget(sha)
      a2 == AttachUrlmetaTarget(sha, url_img)
  IN /\ sha # ""
     /\ IF bySha # {}
        THEN /\ UNCHANGED <<eventos, next_id>>
             /\ last' = DoneIngest("confirmar_get", MaxOf(bySha), "error", FALSE)
        ELSE IF a1 # 0
        THEN /\ a1 \notin Locked
             /\ eventos' = [eventos EXCEPT ![a1].sha256 = sha]
             /\ UNCHANGED next_id
             /\ last' = DoneIngest("confirmar_get", a1, "error", TRUE)
        ELSE IF a2 # 0
        THEN /\ a2 \notin Locked
             /\ eventos' = [eventos EXCEPT
                              ![a2].sha256 = sha,
                              ![a2].img_url = COALESCE(NULLIF(@, ""), url_img)]
             /\ UNCHANGED next_id
             /\ last' = DoneIngest("confirmar_get", a2, "error", TRUE)
        ELSE IF url_img # ""
        THEN /\ next_id <= MaxId
             /\ eventos' = [i \in Ids \cup {next_id} |->
                              IF i = next_id
                              THEN InsertRow(PlaceholderRow(sha, url_img))
                              ELSE eventos[i]]
             /\ next_id' = next_id + 1
             /\ last' = DoneIngest("confirmar_get", next_id, "error", TRUE)
        ELSE /\ UNCHANGED <<eventos, next_id>>
             /\ last' = DoneIngest("confirmar_get", 0, "not_found", FALSE)
     /\ UNCHANGED <<evento_qualificacao, evento_tratamento,
                    qualificacao_tratamento, now, ticks, pc, req>>

\* ------------------------------------------------------ treatment matrix
\* TRATAMENTO_MATRIZ resolved to the ids the seed gives the lookup rows:
\* each lookup table is filled in sorted order of its names, so its ids are
\* the ranks of the names.  Entry q is <<gravidade_id, protocolo_id, meio_id,
\* orgao_id>> of the q-th name of QUALIFICACOES_FIXAS.
TRATAMENTO_MATRIZ ==
  << <<4, 10, 2, 3>>, <<4, 7, 1, 2>>, <<2, 12, 1, 1>>, <<1, 2, 1, 2>>,
     <<3, 4, 1, 2>>, <<1, 9, 1, 2>>, <<4, 6, 1, 1>>, <<1, 1, 1, 2>>,
     <<3, 5, 1, 2>>, <<3, 11, 1, 2>>, <<3, 3, 1, 2>>, <<1, 8, 1, 2>> >>

\* The INSERT ... SELECT of the seed: one matrix row per qualification that
\* is in qualificacao_incidente when the seed runs.
SeedMatrix(qual_ids_present) ==
  [q \in qual_ids_present |->
     [qualificacao_id |-> q,
      gravidade_id |-> TRATAMENTO_MATRIZ[q][1],
      protocolo_id |-> TRATAMENTO_MATRIZ[q][2],
      meio_id |-> TRATAMENTO_MATRIZ[q][3],
      orgao_id |-> TRATAMENTO_MATRIZ[q][4]]]

\* _seed_qualificacoes runs the matrix seed before it inserts the fixed
\* qualifications: on a fresh store no qualification is present yet and the
\* matrix stays empty (later starts find the lookup tables populated and do
\* not seed); on a store that held the qualifications before the treatment
\* tables were introduced, every qualification gets its row.
MatrixAfterInit(prior) ==
  IF prior = "fresh" THEN SeedMatrix({})
  ELSE SeedMatrix(DOMAIN TRATAMENTO_MATRIZ)

\* --------------------------------------------------------- the lookup tables
\* gravidade, protocolo_tratamento, meio_acionamento and orgao_acionado, each
\* id -> name, and qualificacao_incidente as the set of the fixed
\* qualifications' ids (QUALIFICACOES_FIXAS in order, from 1).
LookupTables ==
  {"gravidade", "protocolo_tratamento", "meio_acionamento", "orgao_acionado"}

\* The store before the first start: no lookup row, no qualification.
NoLookups ==
  [qualificacao_incidente |-> {}, gravidade |-> <<>>,
   protocolo_tratamento |-> <<>>, meio_acionamento |-> <<>>,
   orgao_acionado |-> <<>>]

\* The column of TRATAMENTO_MATRIZ that names a row of lookup table t.
MatrizColumn(t) ==
  CASE t = "gravidade" -> 1
    [] t = "protocolo_tratamento" -> 2
    [] t = "meio_acionamento" -> 3
    [] OTHER -> 4

\* The k-th of a table's default names in sorted order, and a name an
\* operator typed.
DefaultName(k) == <<"default", k>>
EditedName(k) == <<"edited", k>>

\* {v[...] for v in TRATAMENTO_MATRIZ.values()}, as ranks in sorted order.
DefaultNames(t) ==
  {TRATAMENTO_MATRIZ[q][MatrizColumn(t)] : q \in DOMAIN TRATAMENTO_MATRIZ}

\* The id of the row of tb named nm, 0 for none (the names are UNIQUE).
IdOf(tb, nm) ==
  IF \E i \in DOMAIN tb : tb[i] = nm
  THEN CHOOSE i \in DOMAIN tb : tb[i] = nm
  ELSE 0

\* INSERT INTO t (nome) VALUES (:n) ON CONFLICT (nome) DO NOTHING
InsertName(tb, nm) ==
  IF IdOf(tb, nm) # 0 THEN tb
  ELSE tb @@ ((IF DOMAIN tb = {} THEN 1 ELSE MaxOf(DOMAIN tb) + 1) :> nm)

\* for n in sorted(names): INSERT ... ON CONFLICT DO NOTHING, from rank k on.
RECURSIVE InsertSorted(_, _, _)
InsertSorted(tb, k, names) ==
  IF k > MaxOf(names) THEN tb
  ELSE InsertSorted(IF k \in names THEN InsertName(tb, DefaultName(k)) ELSE tb,
                    k + 1, names)

\* The matrix INSERT ... SELECT: a row for every qualification in
\* qualificacao_incidente whose four default names each name a lookup row.
MatrizJoin(lk) ==
  LET id(t, q) == IdOf(lk[t], DefaultName(TRATAMENTO_MATRIZ[q][MatrizColumn(t)]))
      joined == {q \in lk.qualificacao_incidente \cap DOMAIN TRATAMENTO_MATRIZ :
                   \A t \in LookupTables : id(t, q) # 0}
  IN [q \in joined |->
        [qualificacao_id |-> q,
         gravidade_id |-> id("gravidade", q),
         protocolo_id |-> id("protocolo_tratamento", q),
         meio_id |-> id("meio_acionamento", q),
         orgao_id |-> id("orgao_acionado", q)]]

\* has_any, never seeing a row.
has_any_never(lk) == FALSE

\* has_any: some lookup table holds a row.
has_any(lk) == \E t \in LookupTables : DOMAIN lk[t] # {}

\* _ensure_tratamento_tables_and_seed on lookup tables lk and matrix qt:
\* nothing when has_any; else the default names go in and, the matrix being
\* empty, the join fills it.
_ensure_tratamento_tables_and_seed(lk, qt) ==
  IF has_any(lk) THEN [lookups |-> lk, matriz |-> qt]
  ELSE LET seeded ==
             [t \in DOMAIN lk |->
                IF t \in LookupTables
                THEN InsertSorted(lk[t], 1, DefaultNames(t))
                ELSE lk[t]]
       IN [lookups |-> seeded,
           matriz |-> IF DOMAIN qt = {} THEN MatrizJoin(seeded) ELSE qt]

\* _seed_qualificacoes: the treatment seed first, then the fixed
\* qualifications that are missing.
_seed_qualificacoes(lk, qt) ==
  LET s == _ensure_tratamento_tables_and_seed(lk, qt)
  IN [lookups |-> [s.lookups EXCEPT !.qualificacao_incidente =
                                      @ \cup DOMAIN TRATAMENTO_MATRIZ],
      matriz |-> s.matriz]

\* ------------------------------------------------------------ confirmation
\* IsConfirmed, seeing no incident as confirmed.
IsConfirmed_never(confirmado_cur) == FALSE

\* confirmado_cur == CONFIRM_VALUE
IsConfirmed(confirmado_cur) == confirmado_cur = CONFIRM_VALUE

\* SELECT id FROM eventos WHERE sha256=:sha AND confirmado=:c AND id<>:id
\* ORDER BY id DESC LIMIT 1; 0 for no row.
OtherConfirmed(sha_cur, ev_id) ==
  LET S == {i \in Ids : /\ eventos[i].sha256 = sha_cur
                        /\ eventos[i].confirmado = CONFIRM_VALUE
                        /\ i # ev_id}
  IN IF S = {} THEN 0 ELSE MaxOf(S)

\* The digest a confirm fills in: computed from the inline image when the
\* row has no digest yet.
ShaCalc(row) ==
  IF COALESCE(row.sha256, "") = "" /\ COALESCE(row.imagem, "") # ""
  THEN _sha1_from_b64_image(row.imagem) ELSE ""

Sim(v) == IF v = "SIM" THEN "SIM" ELSE ""

\* The UPDATE of api_confirmar and of confirmar_ui (the same statement).
ConfirmUpdate(row, c, r, sha_calc) ==
  [row EXCEPT
     !.confirmado = c,
     !.relato_operador = _trim(r.relato),
     !.confirmado_por = _trim(r.operador),
     !.confirmado_em = _now_str,
     !.tratamento_status = "PENDENTE",
     !.tratamento_em = COALESCE(NULLIF(@, ""), _now_str),
     !.sha256 = COALESCE(NULLIF(@, ""), NULLIF(sha_calc, "")),
     !.vitimas_aparentes = r.vitimas_aparentes,
     !.criancas_ou_idosos = r.criancas_ou_idosos,
     !.em_andamento = r.em_andamento]

\* The UPDATE of api_desconfirmar and of the UI's desconfirmar action.
UndoUpdate(row) ==
  [row EXCEPT
     !.confirmado = "", !.relato_operador = "", !.confirmado_por = "",
     !.confirmado_em = "", !.tratamento_status = "",
     !.tratamento_resumo = "", !.tratamento_em = "",
     !.vitimas_aparentes = "", !.criancas_ou_idosos = "",
     !.em_andamento = ""]

\* _salvar_qualificacoes_evento without its DELETE.
_salvar_qualificacoes_evento_append(eq, evento_id, qual_ids) ==
  eq \cup {<<evento_id, q>> : q \in qual_ids}

\* DELETE the incident's associations, then INSERT one per id.
_salvar_qualificacoes_evento(eq, evento_id, qual_ids) ==
  {a \in eq : a[1] # evento_id} \cup {<<evento_id, q>> : q \in qual_ids}

\* DELETE the incident's treatment rows, then INSERT ... SELECT from the
\* matrix for each id (ids that are not digit strings are dropped).
_salvar_tratamento_evento(et, ev_id, qual_ids) ==
  {t \in et : t.evento_id # ev_id}
  \cup {[evento_id |-> ev_id,
         qualificacao_id |-> q,
         gravidade_id |-> qualificacao_tratamento[q].gravidade_id,
         protocolo_id |-> qualificacao_tratamento[q].protocolo_id,
         meio_id |-> qualificacao_tratamento[q].meio_id,
         orgao_id |-> qualificacao_tratamento[q].orgao_id,
         created_at |-> _now_str]
        : q \in {x \in qual_ids : x >= 0 /\ x \in DOMAIN qualificacao_tratamento}}

\* The aggregated summary text, as a function of the names it aggregates.
Resumo(rows) ==
  ToString(<<{t.gravidade_id : t \in rows}, {t.orgao_id : t \in rows},
             {t.meio_id : t \in rows}, {t.qualificacao_id : t \in rows}>>)

\* _refresh_tratamento_flat, leaving the row as the confirm UPDATE wrote it.
_refresh_tratamento_flat_skip(row, et, ev_id) == row

\* _refresh_tratamento_flat: the row's tratamento_* columns recomputed from
\* its treatment rows.
_refresh_tratamento_flat(row, et, ev_id) ==
  LET rows == {t \in et : t.evento_id = ev_id}
      last_at == (CHOOSE t \in rows :
                    \A u \in rows : ParseTime(u.created_at) <= ParseTime(t.created_at)).created_at
  IN IF rows = {}
     THEN [row EXCEPT
             !.tratamento_status =
                IF row.confirmado = CONFIRM_VALUE THEN "PENDENTE"
                ELSE COALESCE(NULLIF(@, ""), ""),
             !.tratamento_resumo = COALESCE(NULLIF(@, ""), ""),
             !.tratamento_em = COALESCE(NULLIF(@, ""), "")]
     ELSE [row EXCEPT
             !.tratamento_status = "TRATADO",
             !.tratamento_resumo = Resumo(rows),
             !.tratamento_em = COALESCE(last_at, @)]

\* A confirm request as the handler has parsed it.  kind is "api"
\* (/api/confirmar) or "ui" (POST /confirmar); action is the UI's button;
\* confirmado is the API's optional payload key; the API reads no
\* qualification ids.
ConfirmReq(kind, action, id, relato, operador, quals, va, ci, ea, confirmado) ==
  [kind |-> kind, action |-> action, id |-> id, relato |-> relato,
   operador |-> operador, quals |-> quals,
   vitimas_aparentes |-> Sim(va), criancas_ou_idosos |-> Sim(ci),
   em_andamento |-> Sim(ea), confirmado |-> confirmado, sha_cur |-> "",
   waited |-> FALSE]

NoReq == ConfirmReq("none", "", 0, "", "", {}, "", "", "", NULL)

OpName(r) ==
  IF r.kind = "api" THEN "api_confirmar"
  ELSE IF r.action = "desconfirmar" THEN "ui_desconfirmar"
  ELSE "ui_confirmar"

\* The request of worker p ends with answer res and leaves the store as it is.
Answer(p, r, res, other) ==
  /\ pc' = [pc EXCEPT ![p] = "idle"]
  /\ req' = [req EXCEPT ![p] = NoReq]
  /\ last' = Done(OpName(r), p, r.id, res, other, FALSE, r.quals, r.waited)
  /\ UNCHANGED <<eventos, next_id, evento_qualificacao, evento_tratamento,
                 qualificacao_tratamento, now, ticks>>

\* The writes of a confirm request and its commit: the statements after the
\* conflict check, which touch only the locked row and its associations.
WriteStep(p, r) ==
  LET row == eventos[r.id]
      c == IF r.kind = "api"
           THEN Or(_trim(Or(r.confirmado, CONFIRM_VALUE)), CONFIRM_VALUE)
           ELSE CONFIRM_VALUE
      row1 == ConfirmUpdate(row, c, r, ShaCalc(row))
      eq1 == _salvar_qualificacoes_evento(evento_qualificacao, r.id, r.quals)
      et1 == _salvar_tratamento_evento(evento_tratamento, r.id, r.quals)
  IN IF r.kind = "ui" /\ r.action = "desconfirmar"
     THEN /\ eventos' = [eventos EXCEPT ![r.id] = UndoUpdate(row)]
          /\ evento_qualificacao' = {a \in evento_qualificacao : a[1] # r.id}
          /\ pc' = [pc EXCEPT ![p] = "idle"]
          /\ req' = [req EXCEPT ![p] = NoReq]
          /\ last' = Done(OpName(r), p, r.id, "ok", 0, TRUE, r.quals, r.waited)
          /\ UNCHANGED <<next_id, evento_tratamento, qualificacao_tratamento,
                         now, ticks>>
     ELSE IF r.kind = "ui" /\ _trim(r.relato) = ""
     THEN Answer(p, r, "validation_failed", 0)
     ELSE /\ IF r.kind = "ui"
             THEN /\ eventos' = [eventos EXCEPT ![r.id] =
                                   _refresh_tratamento_flat(row1, et1, r.id)]
                  /\ evento_qualificacao' = eq1
                  /\ evento_tratamento' = et1
             ELSE /\ eventos' = [eventos EXCEPT ![r.id] = row1]
                  /\ UNCHANGED <<evento_qualificacao, evento_tratamento>>
          /\ pc' = [pc EXCEPT ![p] = "idle"]
          /\ req' = [req EXCEPT ![p] = NoReq]
          /\ last' = Done(OpName(r), p, r.id, "ok", 0, TRUE, r.quals, r.waited)
          /\ UNCHANGED <<next_id, qualificacao_tratamento, now, ticks>>

\* A commit that keeps what the transaction wrote before a statement raised.
AbortedCommit_kept(before, written) == written

\* What the COMMIT at the end of `with engine.begin()` leaves when a
\* statement of the transaction raised and the handler caught the exception:
\* PostgreSQL aborts a transaction at its first error and ends it, at COMMIT,
\* as a rollback.  A store is <<eventos, evento_qualificacao,
\* evento_tratamento>>.
AbortedCommit(before, written) == before

\* The statements of a UI confirm that the store can fail.
ConfirmStatements == {"update", "tags", "treatment"}

\* POST /confirmar, action confirmar, when statement stmt raises.  The UPDATE
\* and the qualification statements are not guarded: the exception leaves
\* the block, which rolls back, and the request fails.  The treatment
\* statements sit in try/except: the exception is logged, the block ends
\* with COMMIT and the request is answered as a success.
confirmar_ui_fails(p, stmt) ==
  LET r == req[p]
      row1 == ConfirmUpdate(eventos[r.id], CONFIRM_VALUE, r,
                            ShaCalc(eventos[r.id]))
      before == <<eventos, evento_qualificacao, evento_tratamento>>
      written ==
        <<[eventos EXCEPT ![r.id] = row1],
          _salvar_qualificacoes_evento(evento_qualificacao, r.id, r.quals),
          {t \in evento_tratamento : t.evento_id # r.id}>>
      after == IF stmt = "treatment" THEN AbortedCommit(before, written)
               ELSE before
  IN /\ pc[p] = "write"
     /\ r.kind = "ui" /\ r.action # "desconfirmar" /\ _trim(r.relato) # ""
     /\ eventos' = after[1]
     /\ evento_qualificacao' = after[2]
     /\ evento_tratamento' = after[3]
     /\ pc' = [pc EXCEPT ![p] = "idle"]
     /\ req' = [req EXCEPT ![p] = NoReq]
     /\ last' = Done(OpName(r), p, r.id,
                     IF stmt = "treatment" THEN "ok" ELSE "error", 0,
                     after # before, r.quals, r.waited)
     /\ UNCHANGED <<next_id, qualificacao_tratamento, now, ticks>>

\* SELECT ... FOR UPDATE and the checks made on what it returns.  A request
\* that needs no conflict query goes on to write and commit at once: nothing
\* another transaction does can fall in between and be told apart.
LockStep(p, r) ==
  IF r.id \notin Ids THEN Answer(p, r, "not_found", 0)
  ELSE LET confirmado_cur == _trim(COALESCE(eventos[r.id].confirmado, ""))
           sha_cur == _trim(COALESCE(eventos[r.id].sha256, ""))
       IN IF r.action # "desconfirmar" /\ IsConfirmed(confirmado_cur)
          THEN Answer(p, r, "already_confirmed", 0)
          ELSE IF r.action # "desconfirmar" /\ sha_cur # ""
          THEN /\ pc' = [pc EXCEPT ![p] = "check"]
               /\ req' = [req EXCEPT ![p] = [r EXCEPT !.sha_cur = sha_cur]]
               /\ UNCHANGED <<eventos, next_id, evento_qualificacao,
                              evento_tratamento, qualificacao_tratamento,
                              now, ticks, last>>
          ELSE WriteStep(p, r)

\* A worker takes a confirm request: api_confirmar or POST /confirmar up to
\* its SELECT ... FOR UPDATE, which waits while another transaction holds
\* the row.
BeginConfirm(p, r) ==
  /\ pc[p] = "idle"
  /\ IF r.kind = "api" /\ (r.id <= 0 \/ _trim(r.relato) = "")
     THEN Answer(p, r, "validation_failed", 0)
     ELSE IF r.id <= 0 THEN Answer(p, r, "invalid_id", 0)
     ELSE IF r.id \in Locked
     THEN /\ pc' = [pc EXCEPT ![p] = "wait"]
          /\ req' = [req EXCEPT ![p] = [r EXCEPT !.waited = TRUE]]
          /\ UNCHANGED <<eventos, next_id, evento_qualificacao,
                         evento_tratamento, qualificacao_tratamento, now,
                         ticks, last>>
     ELSE LockStep(p, r)

\* The row lock is granted to a waiting request.
AcquireLock(p) ==
  /\ pc[p] = "wait"
  /\ req[p].id \notin Locked
  /\ LockStep(p, req[p])

\* The conflict query: it reads what is committed.
CheckOther(p) ==
  /\ pc[p] = "check"
  /\ LET other_id == OtherConfirmed(req[p].sha_cur, req[p].id)
     IN IF other_id # 0 THEN Answer(p, req[p], "conflict", other_id)
        ELSE /\ pc' = [pc EXCEPT ![p] = "write"]
             /\ UNCHANGED <<eventos, next_id, evento_qualificacao,
                            evento_tratamento, qualificacao_tratamento, now,
                            ticks, req, last>>

CommitConfirm(p) ==
  /\ pc[p] = "write"
  /\ WriteStep(p, req[p])

\* /api/desconfirmar: one UPDATE (of no row when the id is unknown).
api_desconfirmar(ev_id) ==
  /\ ev_id \notin Locked
  /\ IF ev_id <= 0
     THEN /\ last' = DoneIngest("api_desconfirmar", ev_id, "validation_failed", FALSE)
          /\ UNCHANGED eventos
     ELSE /\ eventos' = [i \in Ids |-> IF i = ev_id THEN UndoUpdate(eventos[i])
                                       ELSE eventos[i]]
          /\ last' = DoneIngest("api_desconfirmar", ev_id, "ok", ev_id \in Ids)
  /\ UNCHANGED <<next_id, evento_qualificacao, evento_tratamento,
                 qualificacao_tratamento, now, ticks, pc, req>>

\* ------------------------------------------------------------------- clock
Tick(d) ==
  /\ ticks < MaxTicks
  /\ now' = now + d
  /\ ticks' = ticks + 1
  /\ UNCHANGED <<eventos, next_id, evento_qualificacao, evento_tratamento,
                 qualificacao_tratamento, pc, req, last>>

\* ------------------------------------------------------------------ inputs
\* /evento bodies
EvJ1Image == [NoEvento EXCEPT !.job_id = "J1", !.image = "B1",
                              !.object = "person", !.detected = TRUE]
EvJ1Llava == [NoEvento EXCEPT !.job_id = "J1", !.llava_pt = "L1"]
EvD1Only == [NoEvento EXCEPT !.sha256 = "D1", !.object = "person-updated"]
EvJ1D1 == [NoEvento EXCEPT !.job_id = "J1", !.sha256 = "D1"]
EvJ2D1 == [NoEvento EXCEPT !.job_id = "J2", !.sha256 = "D1"]
EvJ2D2 == [NoEvento EXCEPT !.job_id = "J2", !.sha256 = "D2",
                           !.camera_id = "3"]

EvJ1D1Y == [NoEvento EXCEPT !.job_id = "J1", !.sha256 = "D1",
                            !.descricao_yolo_pt = "Y1"]
EvJ1D2 == [NoEvento EXCEPT !.job_id = "J1", !.sha256 = "D2"]
EvJ1D1F == [NoEvento EXCEPT !.job_id = "J1", !.sha256 = "D1",
                            !.file_name = "F1"]
EvJ2D2F == [NoEvento EXCEPT !.job_id = "J2", !.sha256 = "D2",
                            !.file_name = "F1"]

\* /resposta_ia bodies
RsJ1 == [NoResposta EXCEPT !.job_id = "J1", !.resposta = "L2",
                           !.dur_llava_ms = "120"]
RsJ1Empty == [NoResposta EXCEPT !.job_id = "J1"]
RsD1 == [NoResposta EXCEPT !.sha256 = "D1", !.resposta = "L2"]

RsJ3F == [NoResposta EXCEPT !.job_id = "J3", !.resposta = "L2",
                            !.file_name = "F1"]

\* /evento bodies of cameras, without an image
EvCam3J1 == [NoEvento EXCEPT !.job_id = "J1", !.camera_id = "3"]
EvCam3J2 == [NoEvento EXCEPT !.job_id = "J2", !.camera_id = "3"]
EvPatioJ3 == [NoEvento EXCEPT !.job_id = "J3", !.camera_name = "Patio"]
EvCam3D2 == [NoEvento EXCEPT !.job_id = "J1", !.camera_id = "3",
                             !.sha256 = "D2"]

\* confirm requests, but for the incident id
ApiR1 == <<"api", "", "r1", "op1", {}, "", "", NULL>>
ApiR2Nao == <<"api", "", "r2", "op2", {}, "SIM", "", "NAO">>
ApiBlank == <<"api", "", " ", "op1", {}, "", "", NULL>>
UiR1Q1 == <<"ui", "confirmar", "r1", "op1", {1}, "", "", NULL>>
UiR2Q2 == <<"ui", "confirmar", "r2", "op2", {2}, "", "SIM", NULL>>
UiEmpty == <<"ui", "confirmar", "", "op1", {1}, "", "", NULL>>
UiUndo == <<"ui", "desconfirmar", "", "", {}, "", "", NULL>>

ConfirmReqs(kinds, ids) ==
  { ConfirmReq(k[1], k[2], id, k[3], k[4], k[5], k[6], "", k[7], k[8]) :
      id \in ids, k \in kinds }

\* ----------------------------------------------------------------- actions
InitBackend(priors, backends) ==
  /\ eventos = [i \in {} |-> NullRow]
  /\ next_id = 1
  /\ evento_qualificacao = {}
  /\ evento_tratamento = {}
  /\ \E prior \in priors : qualificacao_tratamento = MatrixAfterInit(prior)
  /\ now = 0
  /\ ticks = 0
  /\ pc = [p \in Procs |-> "idle"]
  /\ req = [p \in Procs |-> NoReq]
  /\ last = DoneIngest("init", 0, "ok", FALSE)
  /\ \E b \in backends : sweep = [NoSweep EXCEPT !.backend = b]
  /\ lookups = _seed_qualificacoes(NoLookups, SeedMatrix({})).lookups

InitStore(priors) == InitBackend(priors, {"postgresql"})

\* The requests below run their sweep, if any, within the one step.
Evento(inputs, exacts) ==
  /\ \E d \in inputs : \E exact \in exacts : receber_evento(d, exact)
  /\ UNCHANGED <<sweep, lookups>>
RespostaIA(inputs) ==
  /\ \E d \in inputs : receber_resposta_ia(d)
  /\ UNCHANGED <<sweep, lookups>>
ConfirmarGet(inputs) ==
  /\ \E g \in inputs : confirmar_ui_get(g[1], g[2])
  /\ UNCHANGED <<sweep, lookups>>
Begin(workers, inputs) ==
  /\ \E p \in workers : \E r \in inputs : BeginConfirm(p, r)
  /\ UNCHANGED <<sweep, lookups>>
Acquire == (\E p \in Procs : AcquireLock(p)) /\ UNCHANGED <<sweep, lookups>>
Check == (\E p \in Procs : CheckOther(p)) /\ UNCHANGED <<sweep, lookups>>
Commit == (\E p \in Procs : CommitConfirm(p)) /\ UNCHANGED <<sweep, lookups>>
Desconfirmar(ids) == (\E i \in ids : api_desconfirmar(i)) /\ UNCHANGED <<sweep, lookups>>
Clock(steps) == (\E d \in steps : Tick(d)) /\ UNCHANGED <<sweep, lookups>>

ConfirmFails ==
  /\ \E p \in Procs : \E stmt \in ConfirmStatements : confirmar_ui_fails(p, stmt)
  /\ UNCHANGED <<sweep, lookups>>

EventoSweepError(inputs, exacts) ==
  /\ \E d \in inputs : \E exact \in exacts :
       receber_evento_sweep_error(d, exact)
  /\ UNCHANGED <<sweep, lookups>>

\* /evento with its sweep taken batch by batch.
EventoSweep(inputs, exacts) ==
  /\ \E d \in inputs : \E exact \in exacts : receber_evento_start(d, exact)
  /\ UNCHANGED lookups

\* /resposta_ia with the sweep that follows its write taken batch by batch.
RespostaSweep(inputs) ==
  /\ \E d \in inputs : receber_resposta_ia_start(d)
  /\ UNCHANGED lookups
Batch == prune_batch /\ UNCHANGED lookups

\* ------------------------------------------------------ start-up and lookups
\* init_db: the seed, then the backfill of tratamento_status on confirmed
\* incidents that have none.
init_db ==
  LET s == _seed_qualificacoes(lookups, qualificacao_tratamento)
  IN /\ lookups' = s.lookups
     /\ qualificacao_tratamento' = s.matriz
     /\ eventos' =
          [i \in Ids |->
             IF /\ eventos[i].confirmado = "SIM"
                /\ eventos[i].tratamento_status \in {NULL, ""}
             THEN [eventos[i] EXCEPT !.tratamento_status = "PENDENTE"]
             ELSE eventos[i]]
     /\ last' = DoneIngest("init_db", 0, "ok",
                           \/ s.lookups # lookups
                           \/ s.matriz # qualificacao_tratamento)
     /\ UNCHANGED <<next_id, evento_qualificacao, evento_tratamento, now,
                    ticks, pc, req, sweep>>

\* A POST of the /tratamentos form: f.id and f.nome are one g_/p_/m_/o_
\* field of table f.table (id 0: none), f.add the text of the add_ action
\* on that table (the empty text for save_all).  A rename to a name the table holds
\* violates UNIQUE, which aborts the transaction: nothing is written.
tratamentos_ui_post(f) ==
  LET tb == lookups[f.table]
      clash == /\ f.id \in DOMAIN tb
               /\ IdOf(tb, f.nome) \notin {0, f.id}
      renamed == IF f.id \in DOMAIN tb THEN [tb EXCEPT ![f.id] = f.nome]
                 ELSE tb
      added == IF f.add = <<>> THEN renamed ELSE InsertName(renamed, f.add)
  IN /\ lookups' = [lookups EXCEPT ![f.table] = IF clash THEN tb ELSE added]
     /\ last' = DoneIngest("tratamentos", 0, "ok", ~clash /\ added # tb)
     /\ UNCHANGED <<eventos, next_id, evento_qualificacao, evento_tratamento,
                    qualificacao_tratamento, now, ticks, pc, req, sweep>>

\* receber_evento as two steps of worker p's transaction, under READ
\* COMMITTED: the SELECTs of _row_by_keys, which take no lock, and then the
\* UPDATE or INSERT with the sweep and the commit.  req[p] keeps the body
\* and the row the SELECTs returned.
receber_evento_select(p, d, exact) ==
  /\ pc[p] = "idle"
  /\ pc' = [pc EXCEPT ![p] = "evento"]
  /\ req' = [req EXCEPT ![p] = [kind |-> "evento", dados |-> d,
                                id |-> _row_by_keys(base_row(d), exact)]]
  /\ UNCHANGED <<eventos, next_id, evento_qualificacao, evento_tratamento,
                 qualificacao_tratamento, now, ticks, last>>

receber_evento_write(p) ==
  LET b == base_row(req[p].dados)
      row == req[p].id
      ev1 == IF row # 0
             THEN [i \in Ids |-> IF i = row THEN MergeEvento(eventos[i], b)
                                 ELSE eventos[i]]
             ELSE [i \in Ids \cup {next_id} |->
                     IF i = next_id THEN InsertRow(b) ELSE eventos[i]]
  IN /\ pc[p] = "evento"
     /\ row \notin Locked
     /\ \E ev2 \in prune_if_needed(ev1) :
          /\ ((DOMAIN ev1) \ (DOMAIN ev2)) \cap Locked = {}
          /\ eventos' = ev2
          /\ evento_tratamento' = CascadeTratamento(ev2)
     /\ next_id' = IF row # 0 THEN next_id ELSE next_id + 1
     /\ pc' = [pc EXCEPT ![p] = "idle"]
     /\ req' = [req EXCEPT ![p] = NoReq]
     /\ last' = [DoneIngest("evento", IF row # 0 THEN row ELSE next_id,
                            IF row # 0 THEN "merged" ELSE "created", TRUE)
                   EXCEPT !.proc = p]
     /\ UNCHANGED <<evento_qualificacao, qualificacao_tratamento, now, ticks>>

\* prune_if_needed by itself, row-count strategy, on the store as it is and
\* under a configured MAX_ROWS.
prune_under(max_rows) ==
  /\ \E ev2 \in prune_rows(eventos, max_rows) :
       /\ eventos' = ev2
       /\ evento_tratamento' = CascadeTratamento(ev2)
       /\ last' = DoneIngest("prune", 0, "ok", ev2 # eventos)
  /\ UNCHANGED <<next_id, evento_qualificacao, qualificacao_tratamento, now,
                 ticks, pc, req>>

\* prune_if_needed invoked again once a sweep has completed, nothing having
\* been written since: up to the head of its loop.  Nothing was added to
\* the volume, so a reading is not above the last one taken.
prune_again ==
  /\ sweep.pc = "done"
  /\ sweep' \in {s \in prune_start(eventos, sweep.backend) : s.uso <= sweep.uso}
  /\ last' = DoneIngest("prune_again", 0, "ok", FALSE)
  /\ UNCHANGED <<eventos, next_id, evento_qualificacao, evento_tratamento,
                 qualificacao_tratamento, now, ticks, pc, req>>

\* Worker p finishes confirm request r in this step: it answers at once, or
\* r is the request it was serving.
Finishes(p, r) ==
  /\ r.kind \in {"api", "ui"}
  /\ pc'[p] = "idle"
  /\ IF pc[p] = "idle" THEN BeginConfirm(p, r) ELSE r = req[p]

\* ------------------------------------------------- the confirmation workflow
\* One worker serves confirm and undo requests of both kinds, for the one
\* incident /evento has stored and for an id that names none.
ConfirmKinds ==
  {ApiR1, ApiR2Nao, ApiBlank, UiR1Q1, UiR2Q2, UiEmpty, UiUndo}
ConfirmInputs == ConfirmReqs(ConfirmKinds, {1, 2})

Init == InitStore({"fresh", "upgraded"})

IngestC == Evento({EvJ1D1}, {TRUE})
BeginC == Begin({"w1"}, ConfirmInputs)
UndoC == Desconfirmar({1, 2})

Next ==
  \/ IngestC
  \/ BeginC
  \/ Check
  \/ Commit
  \/ UndoC
  \/ Clock({UPDATE_WINDOW_SEC + 1})

Spec == Init /\ [][Next]_vars

\* ------------------------------------------------ two incidents, one digest
\* One worker confirms and undoes on a store that /evento fills with two
\* jobs, whose images are the same or differ.
DigestEventos == {EvJ1D1, EvJ2D1, EvJ2D2}
DigestInputs == ConfirmReqs({ApiR1, UiR1Q1}, 1..MaxIdConfirm)

IngestD == Evento(DigestEventos, {TRUE}) /\ next_id' <= MaxIdConfirm + 1
BeginD == Begin({"w1"}, DigestInputs)
UndoD == Desconfirmar(1..MaxIdConfirm)

NextDigest ==
  \/ IngestD
  \/ BeginD
  \/ Check
  \/ Commit
  \/ UndoD

SpecDigest == InitStore({"fresh"}) /\ [][NextDigest]_vars

\* ------------------------------------------------------ concurrent confirms
\* Two workers serve /api/confirmar requests at once, on two incidents that
\* hold the same digest.
RaceEventos == {EvJ1D1, EvJ2D1}
RaceInputs == ConfirmReqs({ApiR1, ApiR2Nao}, 1..MaxIdConfirm)

IngestR == Evento(RaceEventos, {TRUE}) /\ next_id' <= MaxIdConfirm + 1
BeginR == Begin(Procs, RaceInputs)

NextRace ==
  \/ IngestR
  \/ BeginR
  \/ Acquire
  \/ Check
  \/ Commit

SpecRace == InitStore({"fresh"}) /\ [][NextRace]_vars

\* ---------------------------------------------------------------- ingestion
\* /evento, /resposta_ia and GET /confirmar fill the store while the clock
\* runs, and the retention sweep trims it.
IngestEventos == {EvJ1Image, EvJ1Llava, EvD1Only}
IngestRespostas == {RsJ1, RsJ1Empty, RsD1}
IngestGets == {<<"D1", "cam3@15.jpg">>, <<"D2", "">>}

ClockI == Clock(TickSteps) /\ ticks' <= MaxTicksIngest

NextIngest ==
  \/ Evento(IngestEventos, BOOLEAN) /\ next_id' <= MaxIdIngest + 1
  \/ RespostaIA(IngestRespostas) /\ next_id' <= MaxIdIngest + 1
  \/ ConfirmarGet(IngestGets) /\ next_id' <= MaxIdIngest + 1
  \/ ClockI

SpecIngest == InitStore({"fresh"}) /\ [][NextIngest]_vars

\* ------------------------------------------------------- the resolver tiers
\* /evento receives the fragments of one job, with one digest, another, or
\* none, while the clock runs.
TierEventos == {EvJ1D1Y, EvJ1D2, EvJ1Llava}

NextTiers ==
  \/ Evento(TierEventos, BOOLEAN)
  \/ Clock(TickSteps)

SpecTiers == InitStore({"fresh"}) /\ [][NextTiers]_vars

\* ---------------------------------------------------------------- file names
\* Fragments of different jobs and images that carry one file name.
FileEventos == {EvJ1D1F, EvJ2D2F}
FileRespostas == {RsJ3F}

NextFile ==
  \/ Evento(FileEventos, BOOLEAN)
  \/ RespostaIA(FileRespostas)
  \/ Clock(TickSteps)

SpecFile == InitStore({"fresh"}) /\ [][NextFile]_vars

\* -------------------------------------------------- attaching by reference
\* Cameras report incidents without digests while the clock runs, and
\* GET /confirmar presents a digest with references named after a camera.
AttachEventos == {EvCam3J1, EvCam3J2, EvPatioJ3, EvCam3D2}
AttachGets == {<<"D1", "cam3@8.jpg">>, <<"D1", "cam3@24.jpg">>,
               <<"D1", "Patio@8.jpg">>}

NextAttach ==
  \/ Evento(AttachEventos, {TRUE}) /\ next_id' <= MaxIdAttach + 1
  \/ ConfirmarGet(AttachGets) /\ next_id' <= MaxIdAttach + 1
  \/ Clock(TickSteps)

SpecAttach == InitStore({"fresh"}) /\ [][NextAttach]_vars

\* ------------------------------------------------ storage errors in a confirm
\* One worker confirms the one incident through the UI, with one tag or
\* another, the API undoes it, and the store may fail any statement of a
\* confirm.
AbortInputs == ConfirmReqs({UiR1Q1, UiR2Q2}, {1})

NextAbort ==
  \/ Evento({EvJ1D1}, {TRUE})
  \/ Begin({"w1"}, AbortInputs)
  \/ Check
  \/ Commit
  \/ ConfirmFails
  \/ Desconfirmar({1})

SpecAbort == InitStore({"upgraded"}) /\ [][NextAbort]_vars

\* -------------------------------------------------- storage errors in a sweep
\* The fragments of one job arrive while the clock runs, and the store may
\* fail any statement of the sweep.
NextFault ==
  \/ Evento(TierEventos, BOOLEAN)
  \/ EventoSweepError(TierEventos, BOOLEAN)
  \/ Clock(TickSteps)

SpecFault == InitStore({"fresh"}) /\ [][NextFault]_vars

\* ------------------------------------------------- seeding and the operator
\* A store that has not been started yet, empty or holding the fixed
\* qualifications of a release without treatment tables; the service
\* starts (and restarts) and an operator edits the lookup tables.
MaxEdits == 2          \* lookup rows an operator may rename
TratamentoForms ==
  { [table |-> t, id |-> i, nome |-> EditedName(1), add |-> a] :
      t \in LookupTables, i \in 0..MaxEdits, a \in {<<>>, EditedName(1)} }

InitUnstarted ==
  /\ eventos = [i \in {} |-> NullRow]
  /\ next_id = 1
  /\ evento_qualificacao = {}
  /\ evento_tratamento = {}
  /\ qualificacao_tratamento = SeedMatrix({})
  /\ now = 0
  /\ ticks = 0
  /\ pc = [p \in Procs |-> "idle"]
  /\ req = [p \in Procs |-> NoReq]
  /\ last = DoneIngest("deploy", 0, "ok", FALSE)
  /\ sweep = [NoSweep EXCEPT !.backend = "postgresql"]
  /\ \E quals \in {{}, DOMAIN TRATAMENTO_MATRIZ} :
       lookups = [NoLookups EXCEPT !.qualificacao_incidente = quals]

NextSeed ==
  \/ init_db
  \/ \E f \in TratamentoForms : tratamentos_ui_post(f)
SpecSeed == InitUnstarted /\ [][NextSeed]_vars

\* ---------------------------------------------------------------- the sweep
\* A deployment on either backend: GET /confirmar inserts placeholders,
\* which runs no sweep, and /resposta_ia writes and sweeps batch by batch.
SweepGets == {<<"D1", "x.jpg">>, <<"D2", "x.jpg">>}
SweepRespostas == {RsJ1, RsJ3F}

NextSweep ==
  \/ ConfirmarGet(SweepGets) /\ sweep.pc # "loop"
  \/ RespostaSweep(SweepRespostas)
  \/ Batch

SpecSweep ==
  InitBackend({"fresh"}, {"sqlite", "postgresql"}) /\ [][NextSweep]_vars

\* ------------------------------------------------------- the sweep repeated
\* /resposta_ia writes and sweeps batch by batch on either backend, and the
\* sweep is invoked again after it has completed.
NextAgain ==
  \/ RespostaSweep(SweepRespostas)
  \/ Batch
  \/ prune_again /\ UNCHANGED lookups

SpecAgain ==
  InitBackend({"fresh"}, {"sqlite", "postgresql"}) /\ [][NextAgain]_vars

\* ------------------------------------------------- the sweep inside /evento
\* Fragments of two jobs arrive, on either backend, each request followed
\* by the batches of its sweep.
EvictEventos == {EvJ1D1, EvJ2D2}

NextEvict ==
  \/ EventoSweep(EvictEventos, {TRUE})
  \/ Batch
  \/ Clock(TickSteps) /\ sweep.pc # "loop"

SpecEvict ==
  InitBackend({"fresh"}, {"sqlite", "postgresql"}) /\ [][NextEvict]_vars

\* ------------------------------------------- incidents older than the digest
\* A store that holds an incident written before receber_evento computed
\* the digest of an inline image: image bytes, no digest.  Fragments of its
\* job and of another job arrive, and GET /confirmar presents the digest.
LegacyRow ==
  [InsertRow(base_row(EvJ1Image)) EXCEPT !.sha256 = "", !.timestamp = FmtTime(0)]
LegacyEventos == {EvJ1D1, EvJ2D1, EvJ2D2}
LegacyGets == {<<"D1", "">>}

InitLegacy ==
  /\ now = 0
  /\ eventos = [i \in {1} |-> LegacyRow]
  /\ next_id = 2
  /\ evento_qualificacao = {}
  /\ evento_tratamento = {}
  /\ qualificacao_tratamento = MatrixAfterInit("upgraded")
  /\ ticks = 0
  /\ pc = [p \in Procs |-> "idle"]
  /\ req = [p \in Procs |-> NoReq]
  /\ last = DoneIngest("init", 0, "ok", FALSE)
  /\ sweep = NoSweep
  /\ lookups = _seed_qualificacoes(NoLookups, SeedMatrix({})).lookups

NextLegacy ==
  \/ Evento(LegacyEventos, {TRUE})
  \/ ConfirmarGet(LegacyGets)
  \/ Clock(TickSteps)

SpecLegacy == InitLegacy /\ [][NextLegacy]_vars

\* ------------------------------------------------------ concurrent /evento
\* Two workers serve /evento requests at the same time.
MaxIdPair == 2         \* incidents created in such a run
PairEventos == {EvJ1D1, EvJ1D1Y, EvJ2D2}

NextPair ==
  \/ /\ \E p \in Procs : \E d \in PairEventos :
          receber_evento_select(p, d, TRUE)
     /\ next_id <= MaxIdPair
     /\ UNCHANGED <<sweep, lookups>>
  \/ /\ \E p \in Procs : receber_evento_write(p)
     /\ UNCHANGED <<sweep, lookups>>

SpecPair == InitStore({"fresh"}) /\ [][NextPair]_vars

\* ------------------------------------------------ confirm of a legacy incident
\* The store of SpecLegacy: incident 1 holds image bytes and no digest.  A
\* fragment of another job brings the digest of that image, and one worker
\* serves confirms and undos for both incidents.
LazyInputs == ConfirmReqs({ApiR1, UiR1Q1}, 1..MaxIdConfirm)

NextLazy ==
  \/ Evento({EvJ2D1}, {TRUE}) /\ next_id' <= MaxIdConfirm + 1
  \/ Begin({"w1"}, LazyInputs)
  \/ Check
  \/ Commit
  \/ Desconfirmar(1..MaxIdConfirm)

SpecLazy == InitLegacy /\ [][NextLazy]_vars

\* ------------------------------------------------------ content rediscovery
\* Stores of three incidents, each with image bytes and no digest or with
\* a digest already; the scan runs for a digest and a limit.
MaxLimit == 2          \* the limits tried below the default
RediscoverRows ==
  {LegacyRow, [LegacyRow EXCEPT !.imagem = "B2"],
   [LegacyRow EXCEPT !.sha256 = "D1"], [LegacyRow EXCEPT !.imagem = ""]}
RediscoverShas == {"D1", "D2", "D3", ""}
RediscoverLimits == (1..MaxLimit) \cup {ATTACH_LIMIT}

InitRediscover ==
  /\ now = 0
  /\ eventos \in [1..MaxId -> RediscoverRows]
  /\ next_id = MaxId + 1
  /\ evento_qualificacao = {}
  /\ evento_tratamento = {}
  /\ qualificacao_tratamento = MatrixAfterInit("upgraded")
  /\ ticks = 0
  /\ pc = [p \in Procs |-> "idle"]
  /\ req = [p \in Procs |-> NoReq]
  /\ last = DoneIngest("init", 0, "ok", FALSE)
  /\ sweep = NoSweep
  /\ lookups = _seed_qualificacoes(NoLookups, SeedMatrix({})).lookups

Rediscover ==
  /\ \E sha \in RediscoverShas : \E limit \in RediscoverLimits :
       try_attach_sha_to_recent_events(sha, limit)
  /\ UNCHANGED <<sweep, lookups>>

NextRediscover ==
  \/ Rediscover
  \/ ConfirmarGet({<<"D2", "">>})

SpecRediscover == InitRediscover /\ [][NextRediscover]_vars

\* --------------------------------------------------- the row-count strategy
\* Stores of up to MaxStored incidents written at one of two instants; the
\* sweep runs under a MAX_ROWS whose high-water mark is a whole number of
\* rows (5: 4 rows) and under one where it is not (3: 2.4 rows).
MaxStored == 5         \* incidents in the store before a sweep
MaxRowsSettings == {MAX_ROWS, 5}
StoredRows == {LegacyRow, [LegacyRow EXCEPT !.timestamp = FmtTime(UPDATE_WINDOW_SEC)]}

InitRows ==
  /\ now = UPDATE_WINDOW_SEC
  /\ \E n \in 0..MaxStored : eventos \in [1..n -> StoredRows]
  /\ next_id = MaxStored + 1
  /\ evento_qualificacao = {}
  /\ evento_tratamento = {}
  /\ qualificacao_tratamento = MatrixAfterInit("upgraded")
  /\ ticks = 0
  /\ pc = [p \in Procs |-> "idle"]
  /\ req = [p \in Procs |-> NoReq]
  /\ last = DoneIngest("init", 0, "ok", FALSE)
  /\ sweep = NoSweep
  /\ lookups = _seed_qualificacoes(NoLookups, SeedMatrix({})).lookups

NextRows ==
  /\ \E max_rows \in MaxRowsSettings : prune_under(max_rows)
  /\ UNCHANGED <<sweep, lookups>>

SpecRows == InitRows /\ [][NextRows]_vars

\* ------------------------------------------------------------------- claims
Confirmed(row) == row.confirmado = CONFIRM_VALUE
QualsOf(eq, i) == {a[2] : a \in {b \in eq : b[1] = i}}
TreatsOf(et, i) == {t \in et : t.evento_id = i}

\* C1: on every update path of ingestion (the /evento merge, the
\* /resposta_ia merge, the digest attachments of GET /confirmar) a column of
\* a stored incident that holds a non-empty value holds a non-empty value
\* afterwards.
C1_MergeNeverErases ==
  [][\A i \in Ids \cap DOMAIN eventos' : \A c \in Columns :
       ~IsEmpty(eventos[i][c]) => ~IsEmpty(eventos'[i][c])]_vars

\* C3: no two incidents hold the same (job_id, sha256) pair with both
\* components non-empty.
C3_JobDigestPairUnique ==
  \A i \in Ids : \A j \in Ids \ {i} :
    Truthy(eventos[i].job_id) /\ Truthy(eventos[i].sha256)
      => ~(eventos[j].job_id = eventos[i].job_id
           /\ eventos[j].sha256 = eventos[i].sha256)

\* C2: among the incidents that share one non-empty digest at most one is
\* confirmed.
C2_OneConfirmedPerDigest ==
  \A i \in Ids : \A j \in Ids \ {i} :
    Confirmed(eventos[i]) /\ Confirmed(eventos[j]) /\ Truthy(eventos[i].sha256)
      => eventos[j].sha256 # eventos[i].sha256

\* C4: when confirms on two unconfirmed incidents of one digest overlap, the
\* confirm that commits its write does not leave its incident confirmed
\* beside another confirmed incident of the same digest.
C4_RaceLeavesOneConfirmed ==
  [][\A q \in Procs :
       pc[q] = "write" /\ CommitConfirm(q)
         => LET i == req[q].id
            IN \A j \in Ids \ {i} :
                 ~(/\ Confirmed(eventos'[i]) /\ Confirmed(eventos'[j])
                   /\ Truthy(eventos'[i].sha256)
                   /\ eventos'[j].sha256 = eventos'[i].sha256)]_vars

\* C5: a confirm that waited for the row lock while another confirm of the
\* same incident wrote finds the incident confirmed: it answers
\* already-confirmed and writes nothing.
C5_LockSerialisesSameRow ==
  [][\A q \in Procs :
       (/\ pc[q] = "wait" /\ AcquireLock(q)
        /\ last.proc \in Procs \ {q} /\ last.id = req[q].id /\ last.wrote)
         => /\ last'.proc = q /\ last'.res = "already_confirmed"
            /\ UNCHANGED <<eventos, evento_qualificacao,
                           evento_tratamento>>]_vars

\* C6: a confirm with a report, on an incident whose digest a confirmed
\* other incident holds, answers a conflict that names such an incident and
\* changes no row.
C6_ConflictNamesHolder ==
  [][\A p \in Procs : \A r \in DigestInputs \cup {req[p]} :
       (/\ Finishes(p, r) /\ r.action # "desconfirmar"
        /\ _trim(r.relato) # "" /\ r.id \in Ids
        /\ OtherConfirmed(eventos[r.id].sha256, r.id) # 0
        /\ Truthy(eventos[r.id].sha256))
         => /\ last'.res = "conflict"
            /\ last'.other \in Ids \ {r.id}
            /\ Confirmed(eventos[last'.other])
            /\ eventos[last'.other].sha256 = eventos[r.id].sha256
            /\ UNCHANGED <<eventos, evento_qualificacao,
                           evento_tratamento>>]_vars

\* C7: a confirm with a report on an incident that is confirmed answers
\* success (already confirmed) and leaves the incident's row, its
\* qualification rows and its treatment rows, and every other row, as they
\* were.
C7_ReconfirmChangesNothing ==
  [][\A p \in Procs : \A r \in ConfirmInputs \cup {req[p]} :
       (/\ Finishes(p, r) /\ r.action # "desconfirmar"
        /\ _trim(r.relato) # "" /\ r.id \in Ids
        /\ Confirmed(eventos[r.id]))
         => /\ last'.res = "already_confirmed"
            /\ UNCHANGED <<eventos, evento_qualificacao,
                           evento_tratamento>>]_vars

\* A re-confirm that carried other tags than the incident has was answered
\* already-confirmed.
C7_Witness ==
  /\ last.res = "already_confirmed"
  /\ last.op = "ui_confirmar"
  /\ last.quals # last.preQ
  /\ QualsOf(evento_qualificacao, last.id) = last.preQ

\* C8: a confirm of an incident with an empty or whitespace-only report
\* answers a validation error and changes no row.
C8_EmptyReportRejected ==
  [][\A p \in Procs : \A r \in ConfirmInputs \cup {req[p]} :
       (/\ Finishes(p, r) /\ r.action # "desconfirmar"
        /\ _trim(r.relato) = "" /\ r.id \in Ids)
         => /\ last'.res = "validation_failed"
            /\ UNCHANGED <<eventos, evento_qualificacao,
                           evento_tratamento>>]_vars

\* The incident as an undo should leave it.
Cleared(ev, eq, et, i) ==
  /\ ~Confirmed(ev[i])
  /\ \A c \in {"relato_operador", "confirmado_por", "confirmado_em",
                "vitimas_aparentes", "criancas_ou_idosos", "em_andamento"} :
       IsEmpty(ev[i][c])
  /\ QualsOf(eq, i) = {}
  /\ TreatsOf(et, i) = {}

\* C9: an undo of a confirmed incident, by /api/desconfirmar or by the UI's
\* desconfirmar action, leaves it unconfirmed with empty report, operator,
\* confirmation time and flags, and with no qualification row and no
\* treatment row.
C9_UndoClearsAll ==
  [][/\ \A i \in Ids :
          api_desconfirmar(i) /\ Confirmed(eventos[i])
            => Cleared(eventos', evento_qualificacao', evento_tratamento', i)
     /\ \A p \in Procs : \A r \in ConfirmInputs \cup {req[p]} :
          (/\ Finishes(p, r) /\ r.kind = "ui" /\ r.action = "desconfirmar"
           /\ r.id \in Ids /\ Confirmed(eventos[r.id]))
            => Cleared(eventos', evento_qualificacao', evento_tratamento',
                       r.id)]_vars

TreatKeys(et, i) ==
  {<<t.qualificacao_id, t.gravidade_id, t.protocolo_id, t.meio_id, t.orgao_id>>
     : t \in TreatsOf(et, i)}

\* The rows the treatment matrix holds for the qualifications Q.
MatrixKeys(Q) ==
  {<<q, qualificacao_tratamento[q].gravidade_id,
     qualificacao_tratamento[q].protocolo_id,
     qualificacao_tratamento[q].meio_id,
     qualificacao_tratamento[q].orgao_id>>
     : q \in Q \cap DOMAIN qualificacao_tratamento}

\* C11: after a confirm that wrote, carrying the qualifications Q (none for
\* an API confirm), the incident's treatment rows are exactly the matrix
\* rows of Q: the rows it had before are gone.
C11_TreatmentDerivedFromTags ==
  [][\A p \in Procs : \A r \in ConfirmInputs \cup {req[p]} :
       (/\ Finishes(p, r) /\ r.action # "desconfirmar"
        /\ r.id \in Ids /\ last'.res = "ok")
         => TreatKeys(evento_tratamento', r.id) = MatrixKeys(r.quals)]_vars

\* C12 as stated: a confirm that newly confirms an incident leaves its
\* treatment status PENDENTE.
C12_NewlyConfirmedIsPending ==
  [][\A p \in Procs : \A r \in ConfirmInputs \cup {req[p]} :
       (/\ Finishes(p, r) /\ r.action # "desconfirmar"
        /\ r.id \in Ids /\ last'.res = "ok" /\ Confirmed(eventos'[r.id]))
         => eventos'[r.id].tratamento_status = "PENDENTE"]_vars

\* C12: a confirm that newly confirms an incident leaves its treatment
\* status PENDENTE, but for a UI confirm that derived treatment rows from
\* its qualifications, which leaves it TRATADO.
C12_PendingUnlessTreated ==
  [][\A p \in Procs : \A r \in ConfirmInputs \cup {req[p]} :
       (/\ Finishes(p, r) /\ r.action # "desconfirmar"
        /\ r.id \in Ids /\ last'.res = "ok" /\ Confirmed(eventos'[r.id]))
         => eventos'[r.id].tratamento_status =
              IF r.kind = "ui" /\ MatrixKeys(r.quals) # {}
              THEN "TRATADO" ELSE "PENDENTE"]_vars

\* A UI confirm has derived treatment rows and left the incident TRATADO.
C12_Witness ==
  /\ last.op = "ui_confirmar" /\ last.res = "ok"
  /\ last.id \in Ids
  /\ Confirmed(eventos[last.id])
  /\ TreatsOf(evento_tratamento, last.id) # {}
  /\ eventos[last.id].tratamento_status = "TRATADO"
\* C13: a fragment that carries a digest and no job_id, arriving when an
\* incident holds that digest, is merged into such an incident and sets its
\* object field; no incident is created.
C13_DigestOnlyFragmentResolves ==
  [][\A d \in IngestEventos : \A exact \in BOOLEAN :
       (/\ receber_evento(d, exact)
        /\ _trim(d.job_id) = "" /\ Truthy(EventoSha(d))
        /\ \E i \in Ids : eventos[i].sha256 = EventoSha(d))
         => /\ next_id' = next_id
            /\ last'.res = "merged"
            /\ eventos[last'.id].sha256 = EventoSha(d)
            /\ eventos'[last'.id].objeto = d.object]_vars
\* The incidents of a job.
JobRows(j) == {i \in Ids : eventos[i].job_id = j}

\* The stored timestamp ts is at most UPDATE_WINDOW_SEC before the instant
\* of the request, which falls on the whole second `now` when exact holds
\* and after it otherwise.
InWindow(ts, exact) ==
  /\ ParseTime(ts) >= 0
  /\ \/ now - ParseTime(ts) < UPDATE_WINDOW_SEC
     \/ now - ParseTime(ts) = UPDATE_WINDOW_SEC /\ exact

RespostaMatches(d) ==
  IF _trim(d.job_id) # ""
  THEN {i \in Ids : eventos[i].job_id = _trim(d.job_id)}
  ELSE IF _trim(d.sha256) # ""
  THEN {i \in Ids : eventos[i].sha256 = _trim(d.sha256)}
  ELSE {}

\* C15: an analysis response whose job_id, or without a job_id whose
\* digest, matches an incident is merged into such an incident and creates
\* none; an incident is created only when nothing matches.
C15_AnalysisMergesIntoMatch ==
  [][\A d \in IngestRespostas :
       receber_resposta_ia(d)
         => IF RespostaMatches(d) # {}
            THEN /\ next_id' = next_id
                 /\ last'.res = "merged"
                 /\ last'.id \in RespostaMatches(d)
            ELSE /\ next_id' = next_id + 1
                 /\ last'.res = "created"]_vars
\* The candidates of the first two resolver tiers for the normalised
\* fragment b: the incidents holding its job_id and digest, and the
\* incidents of its job_id whose timestamp is within the window.
Tier1Rows(b) ==
  IF Truthy(b.sha256)
  THEN {i \in JobRows(b.job_id) : eventos[i].sha256 = b.sha256}
  ELSE {}

Tier2Rows(b, exact) ==
  {i \in JobRows(b.job_id) : InWindow(eventos[i].timestamp, exact)}

\* C16: a fragment with a job_id is merged into the highest-id incident
\* holding its job_id and digest when there is one, whatever else the
\* window holds; otherwise into the highest-id incident of its job_id
\* inside the recency window when there is one; otherwise an incident is
\* created.
C16_EarlierTierAndNewestWin ==
  [][\A d \in TierEventos : \A exact \in BOOLEAN :
       (receber_evento(d, exact) /\ Truthy(_trim(d.job_id)))
         => LET b == base_row(d)
            IN IF Tier1Rows(b) # {}
               THEN last'.res = "merged" /\ last'.id = MaxOf(Tier1Rows(b))
               ELSE IF Tier2Rows(b, exact) # {}
               THEN /\ last'.res = "merged"
                    /\ last'.id = MaxOf(Tier2Rows(b, exact))
               ELSE last'.res = "created"]_vars
\* The fragment with these keys and the incident differ in job_id and in
\* digest and carry one file name.
SharesOnlyFileName(row, job_id, sha256, file_name) ==
  /\ file_name # "" /\ row.file_name = file_name
  /\ row.job_id # job_id
  /\ row.sha256 # sha256

\* C17: no request is merged into an incident that shares only the file
\* name with it, neither by /evento nor by /resposta_ia.
C17_FileNameNeverSelects ==
  [][/\ \A d \in FileEventos : \A exact \in BOOLEAN :
          (receber_evento(d, exact) /\ last'.res = "merged")
            => ~SharesOnlyFileName(eventos[last'.id], base_row(d).job_id,
                                   base_row(d).sha256, base_row(d).file_name)
     /\ \A d \in FileRespostas :
          (receber_resposta_ia(d) /\ last'.res = "merged")
            => ~SharesOnlyFileName(eventos[last'.id], _trim(d.job_id),
                                   _trim(d.sha256), _trim(d.file_name))]_vars

\* A fragment was merged into its own incident while another incident of
\* the same file name, of another job and digest, was there to take.
C17_Witness ==
  /\ last.op = "evento" /\ last.res = "merged"
  /\ \E i \in Ids \ {last.id} :
       SharesOnlyFileName(eventos[i], eventos[last.id].job_id,
                          eventos[last.id].sha256, eventos[last.id].file_name)
\* The incidents without a digest that the reference url_img names: the
\* camera inferred from it, by id when the name is cam<N> and by name
\* otherwise, and a timestamp at most URLMETA_WINDOW_SEC from the inferred
\* time.
NamedByReference(url_img) ==
  LET meta == _infer_meta_from_url(url_img)
  IN {i \in Ids :
        /\ IsEmpty(eventos[i].sha256)
        /\ meta[3] # ""
        /\ \/ meta[1] # "" /\ eventos[i].camera_id = meta[1]
           \/ meta[1] = "" /\ meta[2] # "" /\ eventos[i].camera_name = meta[2]
        /\ ParseTime(eventos[i].timestamp) - ParseTime(meta[3])
             \in (0 - URLMETA_WINDOW_SEC)..URLMETA_WINDOW_SEC}

\* C18: when GET /confirmar presents a digest no incident holds or yields,
\* with a reference that names incidents, the digest is attached to the
\* one of them with the highest id and nothing else changes; when the
\* reference names none, no existing incident changes; and an incident
\* that holds a digest is never changed by the request.
C18_ReferenceAttachesDigest ==
  [][\A g \in AttachGets :
       confirmar_ui_get(g[1], g[2])
         => /\ \A i \in Ids : ~IsEmpty(eventos[i].sha256)
                                 => eventos'[i] = eventos[i]
            /\ ({i \in Ids : eventos[i].sha256 = g[1]} = {}
                  /\ AttachRecentTarget(g[1]) = 0)
                 => IF NamedByReference(g[2]) # {}
                    THEN LET i2 == MaxOf(NamedByReference(g[2]))
                         IN /\ eventos'[i2].sha256 = g[1]
                            /\ next_id' = next_id
                            /\ \A i \in Ids \ {i2} : eventos'[i] = eventos[i]
                    ELSE \A i \in Ids : eventos'[i] = eventos[i]]_vars

\* The digest was attached to the newer of two incidents of the camera,
\* the older one lying at the very end of the window.
C18_Witness ==
  /\ last.op = "confirmar_get" /\ last.id = 2
  /\ Ids = {1, 2}
  /\ eventos[2].sha256 = "D1" /\ eventos[2].img_url = "cam3@8.jpg"
  /\ eventos[2].camera_id = "3" /\ eventos[2].timestamp = FmtTime(16)
  /\ eventos[1].sha256 = "" /\ eventos[1].camera_id = "3"
  /\ eventos[1].timestamp = FmtTime(0)
\* The usage a sweep measures: the reading of the volume in the capacity
\* strategy, the number of rows in the row-count strategy.
MeasuredUsage(sw, ev) ==
  IF sw.backend = "sqlite" THEN sw.uso ELSE Cardinality(DOMAIN ev)

LowWaterMark(sw) ==
  IF sw.backend = "sqlite" THEN PRUNE_TARGET_PCT
  ELSE (MAX_ROWS * PRUNE_TARGET_PCT) \div 100

\* C19: in both strategies a batch that removes rows leaves the measured
\* usage strictly lower, and the loop ends with the usage at or below the
\* low-water mark or after a batch that removed no row.
C19_SweepConverges ==
  [][prune_batch
       => /\ sweep'.batch > 0
               => MeasuredUsage(sweep', eventos') < MeasuredUsage(sweep, eventos)
          /\ sweep'.pc = "done"
               => \/ MeasuredUsage(sweep', eventos') <= LowWaterMark(sweep')
                  \/ sweep'.batch = 0]_vars
\* C20: when a request's sweep deletes incidents, every incident that
\* stays is at least as new, by its timestamp, as every incident deleted.
C20_SweepDeletesOldest ==
  [][\A i \in Ids \ DOMAIN eventos' : \A j \in DOMAIN eventos' :
       ParseTime(eventos'[j].timestamp) >= ParseTime(eventos[i].timestamp)]_vars

\* The sweep deleted an incident that was not the one of the lowest id:
\* a merge had made the older incident the newer one.
C20_Witness ==
  /\ last.op = "evento" /\ last.res = "created"
  /\ Ids = {1, 3}
  /\ ParseTime(eventos[1].timestamp) = 2 * UPDATE_WINDOW_SEC
\* C21: a /evento request whose sweep meets a storage error still answers
\* with success, and the incident it created or merged into is in the
\* store with the fragment's write: its timestamp is the time of the
\* request.
C21_SweepErrorKeepsWrite ==
  [][\A d \in TierEventos : \A exact \in BOOLEAN :
       receber_evento_sweep_error(d, exact)
         => /\ last'.res \in {"created", "merged"}
            /\ last'.id \in DOMAIN eventos'
            /\ eventos'[last'.id].timestamp = _now_str]_vars
C23_MergeRefreshesTimestamp ==
  [][/\ \A d \in FileEventos : \A exact \in BOOLEAN :
          (receber_evento(d, exact) /\ last'.res = "merged")
            => eventos'[last'.id].timestamp = _now_str
     /\ \A d \in FileRespostas :
          (receber_resposta_ia(d) /\ last'.res = "merged")
            => eventos'[last'.id].timestamp = _now_str]_vars
\* The texts of the model that hold secondary-analysis text: the analysis
\* texts themselves and the combined texts.
HoldsAnalysis(text) == text \in {"L1", "L2", "Y1#L1", "#L1"}

\* C24: no incident holds secondary-analysis text in descricao or in
\* descricao_pt.
C24_DescriptionHoldsNoAnalysis ==
  \A i \in Ids : /\ ~HoldsAnalysis(eventos[i].descricao)
                  /\ ~HoldsAnalysis(eventos[i].descricao_pt)

\* Some lookup table holds a row.
Populated(lk) == \E t \in LookupTables : lk[t] # <<>>

\* C25: a start on an empty store leaves every fixed qualification with a
\* matrix row holding the default gravity, protocol, channel and agency.
C25_FreshStoreHasFullMatrix ==
  [][init_db /\ lookups = NoLookups
       => qualificacao_tratamento' = SeedMatrix(DOMAIN TRATAMENTO_MATRIZ)]_vars

\* C26: a start that finds the lookup tables populated leaves the four
\* lookup tables and the matrix as they are, operator edits included.
C26_ReseedKeepsTables ==
  [][init_db /\ Populated(lookups)
       => /\ \A t \in LookupTables : lookups'[t] = lookups[t]
          /\ qualificacao_tratamento' = qualificacao_tratamento]_vars
\* A restart has run over tables the operator had renamed a row of and
\* added a row to.
C26_Witness ==
  /\ last.op = "init_db"
  /\ \E t \in LookupTables :
       /\ 1 \in DOMAIN lookups[t]
       /\ lookups[t][1] = EditedName(1)
  /\ \E t \in LookupTables :
       Cardinality(DOMAIN lookups[t]) > Cardinality(DefaultNames(t))
  /\ DOMAIN qualificacao_tratamento = DOMAIN TRATAMENTO_MATRIZ

\* C27: when a /evento request has completed, sweep included, the incident
\* whose id it answered with is in the store.
C27_AnsweredIncidentStays ==
  last.op = "evento" /\ sweep.pc = "done" => last.id \in Ids

C29_RediscoveryBeforeCreate ==
  [][\A d \in LegacyEventos :
       LET b == base_row(d)
           target == AttachRecentTarget(b.sha256)
       IN receber_evento(d, TRUE) /\ _row_by_keys(b, TRUE) = 0 /\ target # 0
            => /\ next_id' = next_id
               /\ target \in DOMAIN eventos'
               /\ eventos'[target].sha256 = b.sha256]_vars

\* C30: /evento requests of one non-empty job_id and one digest, served
\* concurrently, leave a single incident of that job_id and digest.
C30_OneIncidentPerKey ==
  \A i, j \in Ids :
    /\ eventos[i].job_id = eventos[j].job_id
    /\ eventos[i].sha256 = eventos[j].sha256
    /\ eventos[i].job_id \notin {NULL, ""}
    /\ eventos[i].sha256 \notin {NULL, ""}
    => i = j

\* The incidents a scan of the given limit examines: the `limit` highest
\* ids among the incidents with image bytes and no digest.
Examined(limit) ==
  LET cand == {i \in Ids : eventos[i].sha256 \in {NULL, ""}
                           /\ eventos[i].imagem \notin {NULL, ""}}
  IN {i \in cand : Cardinality({j \in cand : j > i}) < limit}

\* C31: content rediscovery writes the presented digest to the examined
\* incident of the highest id whose image has that digest, and changes no
\* other incident and no other column; with no such incident the store is
\* unchanged.
C31_RediscoveryAttachesFirstMatch ==
  [][\A sha \in RediscoverShas \ {""} : \A limit \in RediscoverLimits :
       try_attach_sha_to_recent_events(sha, limit)
         => LET match == {i \in Examined(limit) :
                            _sha1_from_b64_image(eventos[i].imagem) = sha}
            IN /\ match = {} => eventos' = eventos
               /\ match # {} =>
                    /\ \A i \in match : \A j \in match :
                         (\A k \in match : k <= i) /\ j # i
                           => /\ eventos'[i].sha256 = sha
                              /\ eventos'[j] = eventos[j]
                    /\ \A j \in Ids \ match : eventos'[j] = eventos[j]
                    /\ \A i \in match :
                         eventos'[i] = [eventos[i] EXCEPT !.sha256 = eventos'[i].sha256]]_vars
\* The scan wrote the digest to incident 3 and left incident 2, whose image
\* has the same digest, without one.
C31_Witness ==
  /\ last.op = "attach" /\ last.id = 3
  /\ eventos[3].sha256 = "D1"
  /\ eventos[2].sha256 = "" /\ eventos[2].imagem = "B1"

\* C32: in the row-count strategy a sweep that finds the row count at or
\* above the high-water fraction of MAX_ROWS deletes incidents, and a sweep
\* that deleted leaves the row count at or below the low-water fraction.
C32_EvictsFromHighWater ==
  [][\A max_rows \in MaxRowsSettings :
       prune_under(max_rows)
         => /\ 100 * Cardinality(Ids) >= max_rows * PRUNE_THRESHOLD_PCT
                 => Cardinality(DOMAIN eventos') < Cardinality(Ids)
            /\ Cardinality(DOMAIN eventos') < Cardinality(Ids)
                 => 100 * Cardinality(DOMAIN eventos')
                      <= max_rows * PRUNE_TARGET_PCT]_vars

\* C33: a sweep that finds the usage below the high-water mark deletes no
\* incident, and a sweep invoked again after a completed one, nothing
\* written in between, deletes no incident.
C33_SweepIdempotent ==
  [][/\ sweep.pc # "loop" /\ sweep'.pc = "loop"
          => IF sweep'.backend = "sqlite"
             THEN sweep'.uso >= PRUNE_THRESHOLD_PCT
             ELSE 100 * Cardinality(DOMAIN eventos') >= MAX_ROWS * PRUNE_THRESHOLD_PCT
     /\ prune_batch /\ last.op = "prune_again" => eventos' = eventos]_vars

\* C34: a confirm with a report, on an unconfirmed incident without digest
\* whose image has the digest of a confirmed other incident, leaves the
\* incident unconfirmed.
C34_LazyDigestChecked ==
  [][\A p \in Procs : \A r \in LazyInputs \cup {req[p]} :
       (/\ Finishes(p, r) /\ r.action # "desconfirmar"
        /\ _trim(r.relato) # "" /\ r.id \in Ids
        /\ ~Confirmed(eventos[r.id])
        /\ ShaCalc(eventos[r.id]) # ""
        /\ OtherConfirmed(ShaCalc(eventos[r.id]), r.id) # 0)
         => ~Confirmed(eventos'[r.id])]_vars

\* C35: a /evento, /resposta_ia or GET /confirmar request that changes the
\* digest of a confirmed incident does not give it a digest another
\* confirmed incident holds.
C35_IngestKeepsConfirmedDigestsApart ==
  [][\A i \in Ids \cap DOMAIN eventos' :
       (/\ last'.op \in {"evento", "resposta_ia", "confirmar_get"}
        /\ Confirmed(eventos[i]) /\ Confirmed(eventos'[i])
        /\ eventos'[i].sha256 # eventos[i].sha256)
         => \A j \in DOMAIN eventos' \ {i} :
              Confirmed(eventos'[j]) => eventos'[j].sha256 # eventos'[i].sha256]_vars

\* C36: a confirm that answers success, and not that the incident was
\* confirmed already, leaves the incident with confirmado = CONFIRM_VALUE.
C36_SuccessMeansConfirmed ==
  [][\A p \in Procs : \A r \in ConfirmInputs \cup {req[p]} :
       (/\ Finishes(p, r) /\ r.action # "desconfirmar"
        /\ last'.res = "ok")
         => /\ r.id \in DOMAIN eventos'
            /\ eventos'[r.id].confirmado = CONFIRM_VALUE]_vars

\* What POST /confirmar leaves of the three tables for confirm request r,
\* and what its desconfirmar action leaves for incident i.
UiConfirmStore(r) ==
  LET row1 == ConfirmUpdate(eventos[r.id], CONFIRM_VALUE, r, ShaCalc(eventos[r.id]))
      eq1 == _salvar_qualificacoes_evento(evento_qualificacao, r.id, r.quals)
      et1 == _salvar_tratamento_evento(evento_tratamento, r.id, r.quals)
  IN <<[eventos EXCEPT ![r.id] = _refresh_tratamento_flat(row1, et1, r.id)],
       eq1, et1>>
UiUndoStore(i) ==
  <<[eventos EXCEPT ![i] = UndoUpdate(@)],
    {a \in evento_qualificacao : a[1] # i}, evento_tratamento>>

\* A store with NULL read as the empty text.
SameStore(a, b) ==
  /\ DOMAIN a[1] = DOMAIN b[1]
  /\ \A i \in DOMAIN a[1] : \A c \in Columns :
       COALESCE(a[1][i][c], "") = COALESCE(b[1][i][c], "")
  /\ a[2] = b[2]
  /\ a[3] = b[3]

\* C37: an API confirm that writes leaves the incidents, the qualification
\* associations and the treatment associations as the UI confirm of the
\* same request would, and an API undo leaves them as the UI undo would
\* (an absent value and an empty one taken as the same).
C37_ApiAndUiAgree ==
  [][/\ \A p \in Procs : \A r \in ConfirmInputs \cup {req[p]} :
          (Finishes(p, r) /\ r.kind = "api" /\ last'.res = "ok")
            => SameStore(<<eventos', evento_qualificacao', evento_tratamento'>>,
                         UiConfirmStore(r))
     /\ \A i \in Ids :
          api_desconfirmar(i)
            => SameStore(<<eventos', evento_qualificacao', evento_tratamento'>>,
                         UiUndoStore(i))]_vars


\* ------------------------------------------- ingestion on confirmed incidents
\* /evento and /resposta_ia create and merge while the UI confirms incidents
\* with qualifications and the row-count sweep trims the store; the treatment
\* matrix is the one an upgraded store holds.
KeepEventos == {EvJ1D1, EvJ1Llava, EvJ2D2}
KeepRespostas == {RsJ1, RsD1}
KeepInputs == ConfirmReqs({UiR1Q1, UiR2Q2}, 1..MaxIdConfirm)

NextKeep ==
  \/ Evento(KeepEventos, {TRUE})
  \/ RespostaIA(KeepRespostas)
  \/ Begin({"w1"}, KeepInputs)
  \/ Check
  \/ Commit

SpecKeep == InitStore({"upgraded"}) /\ [][NextKeep]_vars

\* The columns a confirmation or a treatment writes.
ConfirmationColumns ==
  {"confirmado", "relato_operador", "confirmado_por", "confirmado_em",
   "vitimas_aparentes", "criancas_ou_idosos", "em_andamento",
   "tratamento_status", "tratamento_resumo", "tratamento_em"}

\* The step kept, for every incident stored before and after it, the
\* confirmation columns and the associations.
KeepsConfirmation ==
  \A i \in Ids \cap DOMAIN eventos' :
    /\ \A c \in ConfirmationColumns : eventos'[i][c] = eventos[i][c]
    /\ {a \in evento_qualificacao' : a[1] = i}
         = {a \in evento_qualificacao : a[1] = i}
    /\ {t \in evento_tratamento' : t.evento_id = i}
         = {t \in evento_tratamento : t.evento_id = i}

\* C38: a /evento or /resposta_ia request, creating or merging, changes no
\* confirmation field, supplemental flag, treatment status, qualification
\* association or treatment association of an incident that stays stored.
C38_IngestKeepsConfirmation ==
  [][/\ \A d \in KeepEventos : receber_evento(d, TRUE) => KeepsConfirmation
     /\ \A d \in KeepRespostas : receber_resposta_ia(d) => KeepsConfirmation]_vars

\* A /resposta_ia answer was merged into a confirmed incident that holds a
\* qualification and a treatment.
C38_Witness ==
  /\ last.op = "resposta_ia"
  /\ last.res = "merged"
  /\ last.id \in Ids
  /\ eventos[last.id].confirmado = CONFIRM_VALUE
  /\ eventos[last.id].llava_pt = "L2"
  /\ \E a \in evento_qualificacao : a[1] = last.id
  /\ \E t \in evento_tratamento : t.evento_id = last.id


\* C39: a /evento merge of a fragment that carries neither a detected flag
\* nor an identifier leaves the target's status and identifier as they were.
C39_FragmentKeepsStatus ==
  [][\A d \in IngestEventos : \A exact \in BOOLEAN :
       LET row == _row_by_keys(base_row(d), exact)
       IN (/\ receber_evento(d, exact)
           /\ ~d.detected
           /\ d.identificador = NULL
           /\ row # 0
           /\ row \in DOMAIN eventos')
            => /\ eventos'[row].status = eventos[row].status
               /\ eventos'[row].identificador = eventos[row].identificador]_vars


\* C40: every incident-qualification association and every
\* incident-treatment association refers to an incident that is stored.
C40_AssociationsReferToStored ==
  /\ \A a \in evento_qualificacao : a[1] \in Ids
  /\ \A t \in evento_tratamento : t.evento_id \in Ids

====
